---- MODULE Spec2Model ----
(***************************************************************************)
(* 4-hole ocarina helper: the notation parser/validator (NoteParser), the   *)
(* fingering table (FingeringEngine) and the chart renderer                *)
(* (ChartRenderer).                                                        *)
(*                                                                         *)
(* A JavaScript string is a sequence of one-character strings, so that     *)
(* splitting, trimming, tokenizing and case conversion are computed        *)
(* character by character as the code computes them.  A template-string    *)
(* message is the tuple of its fixed text and its interpolated values.     *)
(* An optional field that the code does not set is absent from the record. *)
(***************************************************************************)
EXTENDS Integers, Sequences, FiniteSets, TLC

VARIABLES input, config, call, result,
          args, dpr, callerConfig, chartConfig, aliased, canvas, ctx,
          app, sm, cache

\* the state of the renderer: the arguments of the last call, the device pixel
\* ratio, the configuration object the constructor was given, this.config,
\* whether the two are one object, the canvas and its drawing context
rvars == <<args, dpr, callerConfig, chartConfig, aliased, canvas, ctx>>

\* the state of the application around the renderer: the text input, the
\* RealTimeApp and the PreviewController; the StateManager; the render cache
\* of the PerformanceOptimizedRenderer
avars == <<app, sm, cache>>

vars == <<input, config, call, result, rvars, avars>>

(***************************************************************************)
(* Bounds of the explored inputs.                                          *)
(***************************************************************************)
\* every string over Alphabet of at most MaxLen characters is an input
MaxLen == 4
\* every example input is extended by every string of at most MaxTail characters
MaxTail == 2
\* every array of at most MaxNotes tokens is given to validateNotes
MaxNotes == 2
\* at most MaxErrors errors are added to the state manager's list of errors
MaxErrors == 1

(***************************************************************************)
(* Characters and strings.                                                 *)
(***************************************************************************)
\* the white space of String.prototype.trim and of \s that the inputs use
WhiteSpace == {" ", "\t", "\r", "\n"}

LowerLetters == <<"a", "b", "c", "d", "e", "f", "g", "h", "i", "j", "k", "l", "m",
                  "n", "o", "p", "q", "r", "s", "t", "u", "v", "w", "x", "y", "z">>
UpperLetters == <<"A", "B", "C", "D", "E", "F", "G", "H", "I", "J", "K", "L", "M",
                  "N", "O", "P", "Q", "R", "S", "T", "U", "V", "W", "X", "Y", "Z">>

LowerSet == {LowerLetters[i] : i \in 1..26}
UpperSet == {UpperLetters[i] : i \in 1..26}

UpperOf == [c \in LowerSet |-> UpperLetters[CHOOSE i \in 1..26 : LowerLetters[i] = c]]
LowerOf == [c \in UpperSet |-> LowerLetters[CHOOSE i \in 1..26 : UpperLetters[i] = c]]

toUpperCaseChar(c) == IF c \in LowerSet THEN UpperOf[c] ELSE c
toLowerCaseChar(c) == IF c \in UpperSet THEN LowerOf[c] ELSE c

toUpperCase(s) == [i \in 1..Len(s) |-> toUpperCaseChar(s[i])]
toLowerCase(s) == [i \in 1..Len(s) |-> toLowerCaseChar(s[i])]

\* the positions of s in increasing order; SelectSeq keeps those that match
Indexes(s) == [i \in 1..Len(s) |-> i]

\* the positions of s that hold no white space
Inked(s) == SelectSeq(Indexes(s), LAMBDA i : s[i] \notin WhiteSpace)

trimStart(s) ==
    LET inked == Inked(s)
    IN  IF Len(inked) = 0 THEN <<>> ELSE SubSeq(s, inked[1], Len(s))
trimEnd(s) ==
    LET inked == Inked(s)
    IN  IF Len(inked) = 0 THEN <<>> ELSE SubSeq(s, 1, inked[Len(inked)])
trim(s) == trimEnd(trimStart(s))

Includes(seq, x) == \E i \in 1..Len(seq) : seq[i] = x

\* Array.prototype.flat, and a push(...items) for each element in order
RECURSIVE Flat(_)
Flat(ss) ==
    IF Len(ss) = 0 THEN <<>>
    ELSE IF Len(ss) = 1 THEN ss[1]
    ELSE LET h == Len(ss) \div 2
         IN  Flat(SubSeq(ss, 1, h)) \o Flat(SubSeq(ss, h + 1, Len(ss)))

Repeat(s, n) == [i \in 1..(n * Len(s)) |-> s[((i - 1) % Len(s)) + 1]]

(***************************************************************************)
(* Types: error and warning kinds, the supported notes.                    *)
(***************************************************************************)
UNSUPPORTED_NOTE == "unsupported_note"
EMPTY_INPUT == "empty_input"
PARSING_ERROR == "parsing_error"
NOTE_CONVERSION == "note_conversion"
EMPTY_LINE == "empty_line"

SUPPORTED_NOTES == << <<"F">>, <<"G">>, <<"A">>, <<"B", "b">>, <<"C">>, <<"D">>, <<"E">> >>

DEFAULT_CONFIG ==
    [autoConvertB |-> TRUE, strictValidation |-> TRUE, maxLines |-> 100, maxNotesPerLine |-> 50]

(***************************************************************************)
(* NoteParser.                                                             *)
(***************************************************************************)
\* input.split(/\r?\n/): a line ends at "\n", and one "\r" right before it
\* belongs to the separator
splitLines(s) ==
    LET breaks == SelectSeq(Indexes(s), LAMBDA i : s[i] = "\n")
        n == Len(breaks)
        from(k) == IF k = 1 THEN 1 ELSE breaks[k - 1] + 1
        upto(k) == IF k = n + 1 THEN Len(s)
                   ELSE LET b == breaks[k]
                        IN  IF b - 1 >= from(k) /\ s[b - 1] = "\r" THEN b - 2 ELSE b - 1
    IN  [k \in 1..(n + 1) |-> SubSeq(s, from(k), upto(k))]

preprocessInput(in) ==
    LET raw == splitLines(in)
    IN  [i \in 1..Len(raw) |-> trim(raw[i])]

\* Separators with the pipe missing from the character class
SeparatorsNoPipe == WhiteSpace \cup {",", "-"}

\* the character class [\s,|\-]
Separators == WhiteSpace \cup {",", "|", "-"}

\* String.prototype.split on a one-or-more character class: the pieces between
\* maximal separator runs, with an empty piece before a leading run and after
\* a trailing one
splitSeparators(s, seps) ==
    LET runStarts ==
            SelectSeq(Indexes(s),
                      LAMBDA i : s[i] \in seps /\ (i = 1 \/ s[i - 1] \notin seps))
        runEnds ==
            SelectSeq(Indexes(s),
                      LAMBDA i : s[i] \in seps /\ (i = Len(s) \/ s[i + 1] \notin seps))
        n == Len(runStarts)
        from(k) == IF k = 1 THEN 1 ELSE runEnds[k - 1] + 1
        upto(k) == IF k = n + 1 THEN Len(s) ELSE runStarts[k] - 1
    IN  [k \in 1..(n + 1) |-> SubSeq(s, from(k), upto(k))]

\* .split(seps+).map(note => note.trim()).filter(note => note.length > 0)
tokenize(line, seps) ==
    LET pieces == splitSeparators(line, seps)
        trimmed == [i \in 1..Len(pieces) |-> trim(pieces[i])]
    IN  SelectSeq(trimmed, LAMBDA note : Len(note) > 0)

\* the tokenization of validateNoteLine (the warning-detection pass)
rawNotesOfValidate(line) == tokenize(line, Separators)

\* rawNotesOfParse with the comma missing from its separator class
rawNotesOfParseNoComma(line) == tokenize(line, Separators \ {","})

\* the tokenization of parseNotesFromLine (the parsing pass)
rawNotesOfParse(line) == tokenize(line, Separators)

\* positionOf reporting the 0-based loop index
positionOfZeroBased(i) == i

\* 0-based loop index to the 1-based line number and token position reported
lineNumberOf(i) == i + 1
positionOf(i) == i + 1

\* resultOf with warnings counted against validity
resultOfStrict(errors, warnings) ==
    [isValid |-> Len(errors) = 0 /\ Len(warnings) = 0,
     errors |-> errors, warnings |-> warnings]

\* isValid: errors.length === 0
resultOf(errors, warnings) ==
    [isValid |-> Len(errors) = 0, errors |-> errors, warnings |-> warnings]

\* IsB comparing with case: note === 'B'
IsBCaseSensitive(note) == note = <<"B">>

\* x.toUpperCase() === 'B', the test of convertNotes, validateNoteLine and
\* validateNote
IsB(note) == toUpperCase(note) = <<"B">>

\* convertNotes that does not look at autoConvertB
convertNotesAlways(notes, cfg) ==
    [notes |-> [i \in 1..Len(notes) |-> IF IsB(notes[i]) THEN <<"B", "b">> ELSE notes[i]],
     warnings |-> [i \in 1..Cardinality({j \in 1..Len(notes) : IsB(notes[j])}) |->
                    [type |-> NOTE_CONVERSION,
                     message |-> [text |-> "Converted 'B' to 'Bb'", args |-> <<>>]]]]

convertNotes(notes, cfg) ==
    [notes |-> [i \in 1..Len(notes) |->
                    IF IsB(notes[i]) /\ cfg.autoConvertB THEN <<"B", "b">> ELSE notes[i]],
     warnings |-> [i \in 1..Cardinality({j \in 1..Len(notes) :
                                            IsB(notes[j]) /\ cfg.autoConvertB}) |->
                    [type |-> NOTE_CONVERSION,
                     message |-> [text |-> "Converted 'B' to 'Bb'", args |-> <<>>]]]]

\* normalizeCase without the special case for 'BB'
normalizeCaseNoBB(note) ==
    LET upperNote == toUpperCase(note)
    IN  IF Includes(SUPPORTED_NOTES, upperNote) THEN upperNote ELSE note

\* the callback of notes.map in parseNotesFromLine
normalizeCase(note) ==
    LET upperNote == toUpperCase(note)
    IN  IF upperNote = <<"B", "B">> THEN <<"B", "b">>
        ELSE IF Includes(SUPPORTED_NOTES, upperNote) THEN upperNote
        ELSE note

parseNotesFromLine(line, cfg) ==
    LET notes == convertNotes(rawNotesOfParse(line), cfg).notes
    IN  [i \in 1..Len(notes) |-> normalizeCase(notes[i])]

validateNote(note, lineNumber, position, cfg) ==
    LET normalizedNote ==
            <<toUpperCaseChar(note[1])>> \o toLowerCase(SubSeq(note, 2, Len(note)))
        unsupported == ~Includes(SUPPORTED_NOTES, normalizedNote)
        errors ==
            IF ~unsupported THEN <<>>
            ELSE IF IsB(note)
                 THEN IF cfg.autoConvertB THEN <<>>
                      ELSE <<[type |-> UNSUPPORTED_NOTE,
                              message |-> [text |-> "Unsupported note",
                                           args |-> <<note, lineNumber, position>>],
                              line |-> lineNumber,
                              position |-> position,
                              suggestions |-> <<"Use Bb instead of B for 4-hole ocarinas">>
                                              \o SUPPORTED_NOTES]>>
                 ELSE <<[type |-> UNSUPPORTED_NOTE,
                         message |-> [text |-> "Unsupported note",
                                      args |-> <<note, lineNumber, position>>],
                         line |-> lineNumber,
                         position |-> position,
                         suggestions |-> <<[text |-> "Supported notes",
                                            args |-> SUPPORTED_NOTES]>>]>>
        warnings ==
            IF unsupported /\ IsB(note) /\ cfg.autoConvertB
            THEN <<[type |-> NOTE_CONVERSION,
                    message |-> [text |-> "Note 'B' will be converted to 'Bb'", args |-> <<>>],
                    line |-> lineNumber,
                    position |-> position]>>
            ELSE <<>>
    IN  resultOf(errors, warnings)

\* if (notes.length > this.config.maxNotesPerLine)
tooManyNotes(notes, cfg) == Len(notes) > cfg.maxNotesPerLine

\* the loop over rawNotes, i = 0 .. rawNotes.length - 1
conversionWarnings(rawNotes, lineNumber, cfg) ==
    Flat([k \in 1..Len(rawNotes) |->
            LET i == k - 1
            IN  IF IsB(rawNotes[i + 1]) /\ cfg.autoConvertB
                THEN <<[type |-> NOTE_CONVERSION,
                        message |-> [text |-> "Note 'B' will be converted to 'Bb'",
                                     args |-> <<>>],
                        line |-> lineNumber,
                        position |-> positionOf(i)]>>
                ELSE <<>>])

validateNoteLine(line, lineNumber, cfg) ==
    IF Len(trim(line)) = 0
    THEN [isValid |-> TRUE,
          errors |-> <<>>,
          warnings |-> <<[type |-> EMPTY_LINE,
                          message |-> [text |-> "Line is empty", args |-> <<lineNumber>>],
                          line |-> lineNumber]>>]
    ELSE
    LET rawNotes == rawNotesOfValidate(line)
        convWarnings == conversionWarnings(rawNotes, lineNumber, cfg)
        notes == parseNotesFromLine(line, cfg)
        countErrors ==
            IF tooManyNotes(notes, cfg)
            THEN <<[type |-> PARSING_ERROR,
                    message |-> [text |-> "Too many notes on line",
                                 args |-> <<lineNumber, Len(notes), cfg.maxNotesPerLine>>],
                    line |-> lineNumber,
                    suggestions |-> <<"Split long lines into multiple shorter lines">>]>>
            ELSE <<>>
        \* the loop over notes, i = 0 .. notes.length - 1
        perNote == [i \in 0..(Len(notes) - 1) |->
                        validateNote(notes[i + 1], lineNumber, positionOf(i), cfg)]
        noteErrors == Flat([k \in 1..Len(notes) |-> perNote[k - 1].errors])
        noteWarnings ==
            Flat([k \in 1..Len(notes) |->
                    SelectSeq(perNote[k - 1].warnings, LAMBDA w : w.type # NOTE_CONVERSION)])
    IN  resultOf(countErrors \o noteErrors, convWarnings \o noteWarnings)

\* isEmptyInput without the trim
isEmptyInputNoTrim(in) == Len(in) = 0

\* if (!input || input.trim().length === 0)
isEmptyInput(in) == Len(in) = 0 \/ Len(trim(in)) = 0

\* tooManyLines rejecting an input of exactly maxLines lines
tooManyLinesAtLimit(lines, cfg) == Len(lines) >= cfg.maxLines

\* if (lines.length > this.config.maxLines)
tooManyLines(lines, cfg) == Len(lines) > cfg.maxLines

\* collectErrors returning before the per-line loop once an error is found
collectErrorsFirstOnly(shapeErrors, limitErrors, lineErrors) ==
    IF Len(shapeErrors \o limitErrors) > 0
    THEN shapeErrors \o limitErrors
    ELSE lineErrors

\* the errors array after the shape check, the limit check and the per-line loop
collectErrors(shapeErrors, limitErrors, lineErrors) ==
    shapeErrors \o limitErrors \o lineErrors

validateInput(in, cfg) ==
    IF isEmptyInput(in)
    THEN [isValid |-> FALSE,
          errors |-> <<[type |-> EMPTY_INPUT,
                        message |-> [text |-> "Input cannot be empty", args |-> <<>>],
                        suggestions |-> <<"Enter song notation or load an example song">>]>>,
          warnings |-> <<>>]
    ELSE
    LET lines == preprocessInput(in)
        shapeErrors ==
            IF Len(lines) < 2
            THEN <<[type |-> PARSING_ERROR,
                    message |->
                        [text |-> "Input must contain a title and at least one line of notes",
                         args |-> <<>>],
                    suggestions |->
                        <<"Add a title on the first line and notes on subsequent lines">>]>>
            ELSE <<>>
        limitErrors ==
            IF tooManyLines(lines, cfg)
            THEN <<[type |-> PARSING_ERROR,
                    message |-> [text |-> "Too many lines",
                                 args |-> <<Len(lines), cfg.maxLines>>],
                    suggestions |-> <<"Split large songs into smaller sections">>]>>
            ELSE <<>>
        \* the loop over lines, i = 1 .. lines.length - 1 (the title line is skipped)
        perLine == [i \in 1..(Len(lines) - 1) |->
                        validateNoteLine(lines[i + 1], lineNumberOf(i), cfg)]
        lineErrors == Flat([i \in 1..(Len(lines) - 1) |-> perLine[i].errors])
        lineWarnings == Flat([i \in 1..(Len(lines) - 1) |-> perLine[i].warnings])
    IN  resultOf(collectErrors(shapeErrors, limitErrors, lineErrors), lineWarnings)

UntitledSong == <<"U", "n", "t", "i", "t", "l", "e", "d", " ", "S", "o", "n", "g">>

TitlePrefixes == { <<"t", "i", "t", "l", "e">>, <<"s", "o", "n", "g">>, <<"n", "a", "m", "e">> }

\* matchesPrefix without the i flag
matchesPrefixCaseSensitive(titleLine, w) ==
    /\ Len(titleLine) > Len(w)
    /\ SubSeq(titleLine, 1, Len(w)) = w
    /\ titleLine[Len(w) + 1] = ":"

\* whether titleLine starts with the word w and a colon, compared without case
\* (the i flag)
matchesPrefix(titleLine, w) ==
    /\ Len(titleLine) > Len(w)
    /\ toLowerCase(SubSeq(titleLine, 1, Len(w))) = w
    /\ titleLine[Len(w) + 1] = ":"

\* titleLine.replace(/^(title|song|name):\s*/i, '')
stripTitlePrefix(titleLine) ==
    IF \E w \in TitlePrefixes : matchesPrefix(titleLine, w)
    THEN LET w == CHOOSE w \in TitlePrefixes : matchesPrefix(titleLine, w)
         IN  trimStart(SubSeq(titleLine, Len(w) + 2, Len(titleLine)))
    ELSE titleLine

extractTitle(lines) ==
    IF Len(lines) = 0 THEN UntitledSong
    ELSE LET titleLine == trim(lines[1])
         IN  IF Len(titleLine) = 0 THEN UntitledSong
             ELSE LET cleanTitle == trim(stripTitlePrefix(titleLine))
                  IN  IF cleanTitle = <<>> THEN UntitledSong ELSE cleanTitle

\* parseNoteLines pushing the notes of every line, the empty arrays too
parseNoteLinesKeepEmpty(lines, cfg) ==
    [i \in 1..Len(lines) |->
        IF Len(trim(lines[i])) = 0 THEN <<>>
        ELSE parseNotesFromLine(lines[i], cfg)]

parseNoteLines(lines, cfg) ==
    LET parsed == [i \in 1..Len(lines) |->
                      IF Len(trim(lines[i])) = 0 THEN <<>>
                      ELSE parseNotesFromLine(lines[i], cfg)]
    IN  SelectSeq(parsed, LAMBDA notes : Len(notes) > 0)

\* a returned Song is [ok |-> TRUE, song |-> ...]; the thrown Error is
\* [ok |-> FALSE, error |-> ...], its message the prefix and the error
\* messages that join(', ') joins.  parseTimestamp (new Date()) is left out.
parseSong(in, cfg) ==
    LET validation == validateInput(in, cfg)
    IN  IF ~validation.isValid
        THEN [ok |-> FALSE,
              error |-> [prefix |-> "Parsing failed",
                         messages |-> [i \in 1..Len(validation.errors) |->
                                          validation.errors[i].message]]]
        ELSE LET lines == preprocessInput(in)
                 title == extractTitle(lines)
                 noteLines == parseNoteLines(Tail(lines), cfg)
             IN  [ok |-> TRUE,
                  song |-> [title |-> title,
                            lines |-> noteLines,
                            metadata |-> [originalInput |-> in,
                                          noteCount |-> Len(Flat(noteLines))]]]

(***************************************************************************)
(* FingeringEngine.                                                        *)
(***************************************************************************)
\* FINGERING_PATTERNS with the top-right hole of G covered, as for F
FINGERING_PATTERNS_SameFG ==
    [n \in {SUPPORTED_NOTES[i] : i \in 1..Len(SUPPORTED_NOTES)} |->
        [note |-> n,
         holes |-> CASE n = <<"F">> -> <<TRUE, TRUE, TRUE, TRUE>>
                     [] n = <<"G">> -> <<TRUE, TRUE, TRUE, TRUE>>
                     [] n = <<"A">> -> <<TRUE, TRUE, TRUE, FALSE>>
                     [] n = <<"B", "b">> -> <<TRUE, FALSE, TRUE, FALSE>>
                     [] n = <<"C">> -> <<FALSE, FALSE, TRUE, TRUE>>
                     [] n = <<"D">> -> <<FALSE, FALSE, TRUE, FALSE>>
                     [] n = <<"E">> -> <<FALSE, TRUE, FALSE, FALSE>>]]

\* holes: <<top-left, top-right, bottom-left, bottom-right>>, TRUE = covered
FINGERING_PATTERNS ==
    [n \in {SUPPORTED_NOTES[i] : i \in 1..Len(SUPPORTED_NOTES)} |->
        [note |-> n,
         holes |-> CASE n = <<"F">> -> <<TRUE, TRUE, TRUE, TRUE>>
                     [] n = <<"G">> -> <<TRUE, FALSE, TRUE, TRUE>>
                     [] n = <<"A">> -> <<TRUE, TRUE, TRUE, FALSE>>
                     [] n = <<"B", "b">> -> <<TRUE, FALSE, TRUE, FALSE>>
                     [] n = <<"C">> -> <<FALSE, FALSE, TRUE, TRUE>>
                     [] n = <<"D">> -> <<FALSE, FALSE, TRUE, FALSE>>
                     [] n = <<"E">> -> <<FALSE, TRUE, FALSE, FALSE>>]]

\* normalizeNote returning the note as given
normalizeNoteUntrimmed(note) == note

normalizeNote(note) == trim(note)

isSupported(note) == Includes(SUPPORTED_NOTES, normalizeNote(note))

\* null is [found |-> FALSE]
getPattern(note) ==
    LET normalizedNote == normalizeNote(note)
    IN  IF ~isSupported(normalizedNote) THEN [found |-> FALSE]
        ELSE [found |-> TRUE, pattern |-> FINGERING_PATTERNS[normalizedNote]]

\* noteMap of getSuggestions
noteMap ==
    [n \in { <<"B">>, <<"D", "b">>, <<"E", "b">>, <<"G", "b">>, <<"A", "b">> } |->
        CASE n = <<"B">> -> << <<"B", "b">>, <<"A">>, <<"C">> >>
          [] n = <<"D", "b">> -> << <<"D">>, <<"C">> >>
          [] n = <<"E", "b">> -> << <<"E">>, <<"D">> >>
          [] n = <<"G", "b">> -> << <<"G">>, <<"F">> >>
          [] n = <<"A", "b">> -> << <<"A">>, <<"G">> >>]

\* names every object literal inherits from Object.prototype; noteMap[note]
\* finds a function there, which is truthy and has no iterator
ObjectPrototypeKeys ==
    { <<"c", "o", "n", "s", "t", "r", "u", "c", "t", "o", "r">>,
      <<"t", "o", "S", "t", "r", "i", "n", "g">>,
      <<"v", "a", "l", "u", "e", "O", "f">> }

\* suggestions.push(...noteMap[note]) of a value that is truthy and not iterable
spreadThrows(note) == note \notin DOMAIN noteMap /\ note \in ObjectPrototypeKeys

\* the three steps of getSuggestions push onto the same array
getSuggestions(note) ==
    LET conversion == IF toLowerCase(note) = <<"b">> THEN << <<"B", "b">> >> ELSE <<>>
        nearby == IF note \in DOMAIN noteMap THEN noteMap[note] ELSE <<>>
        suggestions == conversion \o nearby
    IN  IF Len(suggestions) = 0 THEN SUPPORTED_NOTES ELSE suggestions

\* the loop over notes, i = 0 .. notes.length - 1; position is i; a TypeError
\* of getSuggestions leaves the call without a result
validateNotes(notes) ==
    LET unsupported(k) == ~isSupported(normalizeNote(notes[k]))
        errors ==
            Flat([k \in 1..Len(notes) |->
                    LET i == k - 1
                        note == notes[k]
                        normalizedNote == normalizeNote(note)
                    IN  IF ~isSupported(normalizedNote)
                        THEN <<[type |-> UNSUPPORTED_NOTE,
                                message |->
                                    [text |-> "Note is not supported by 4-hole ocarina",
                                     args |-> <<note>>],
                                position |-> i,
                                suggestions |-> getSuggestions(normalizedNote)]>>
                        ELSE <<>>])
    IN  IF \E k \in 1..Len(notes) : unsupported(k) /\ spreadThrows(normalizeNote(notes[k]))
        THEN [thrown |-> "TypeError"]
        ELSE [isValid |-> Len(errors) = 0, errors |-> errors, warnings |-> <<>>]

(***************************************************************************)
(* ChartRenderer.  The canvas is its size in device pixels and its CSS     *)
(* display size; the context is the scale of its transform and what is on  *)
(* the surface: the colour that fills it (none while it is transparent)    *)
(* and the title and the patterns drawn over that, in drawing order.       *)
(* A colour is the string of its characters.                               *)
(***************************************************************************)
\* the digits of [a-f\d] under the i flag, by value
HexDigits ==
    <<"0", "1", "2", "3", "4", "5", "6", "7", "8", "9", "a", "b", "c", "d", "e", "f">>

IsHexDigit(c) == \E i \in 1..Len(HexDigits) : HexDigits[i] = toLowerCaseChar(c)

\* parseInt(pair, 16) of two hexadecimal digits
parseHexPair(hi, lo) ==
    LET value(c) == (CHOOSE i \in 1..Len(HexDigits) : HexDigits[i] = toLowerCaseChar(c)) - 1
    IN  16 * value(hi) + value(lo)

\* hexToRgb without the optional # of its pattern
hexToRgbNoHash(hex) ==
    IF Len(hex) = 6 /\ \A i \in 1..6 : IsHexDigit(hex[i])
    THEN [found |-> TRUE,
          r |-> parseHexPair(hex[1], hex[2]),
          g |-> parseHexPair(hex[3], hex[4]),
          b |-> parseHexPair(hex[5], hex[6])]
    ELSE [found |-> FALSE]

\* null is [found |-> FALSE]
hexToRgb(hex) ==
    LET body == IF Len(hex) > 0 /\ hex[1] = "#" THEN Tail(hex) ELSE hex
    IN  IF Len(body) = 6 /\ \A i \in 1..6 : IsHexDigit(body[i])
        THEN [found |-> TRUE,
              r |-> parseHexPair(body[1], body[2]),
              g |-> parseHexPair(body[3], body[4]),
              b |-> parseHexPair(body[5], body[6])]
        ELSE [found |-> FALSE]

\* this.dpr = window.devicePixelRatio || 1
dprOf(devicePixelRatio) == IF devicePixelRatio = 0 THEN 1 ELSE devicePixelRatio

\* setupHighDPICanvas leaving the canvas at its logical size
setupCanvasUnscaled(cfg, d) ==
    [canvas |-> [width |-> cfg.canvasWidth,
                 height |-> cfg.canvasHeight,
                 style |-> [width |-> [px |-> cfg.canvasWidth],
                            height |-> [px |-> cfg.canvasHeight]]],
     ctx |-> [scale |-> d, fill |-> <<>>, marks |-> <<>>]]

\* setupHighDPICanvas: assigning the width and height of a canvas clears its
\* surface and resets its context, which is then scaled
setupHighDPICanvas(cfg, d) ==
    LET displayWidth == cfg.canvasWidth
        displayHeight == cfg.canvasHeight
    IN  [canvas |-> [width |-> displayWidth * d,
                     height |-> displayHeight * d,
                     style |-> [width |-> [px |-> displayWidth],
                                height |-> [px |-> displayHeight]]],
         ctx |-> [scale |-> d, fill |-> <<>>, marks |-> <<>>]]

\* patternWidthOf without the two hole diameters
patternWidthOfSpacing(cfg) == cfg.spacing

patternWidthOf(cfg) == (cfg.holeRadius * 2 * 2) + cfg.spacing

patternHeightOf(cfg) == (cfg.holeRadius * 2 * 2) + cfg.spacing

Max(S) == CHOOSE x \in S : \A y \in S : y <= x

\* maxNotesOf giving 0 for a song without lines
maxNotesOfOrZero(lines) ==
    IF Len(lines) > 0 THEN Max({Len(lines[i]) : i \in 1..Len(lines)}) ELSE 0

\* maxNotesPerLine of calculateLayout
maxNotesOf(lines) ==
    IF Len(lines) > 0 THEN Max({Len(lines[i]) : i \in 1..Len(lines)}) ELSE 1

calculateLayout(song, cfg) ==
    LET spacing == cfg.spacing
        patternWidth == patternWidthOf(cfg)
        patternHeight == patternHeightOf(cfg)
        maxNotesPerLine == maxNotesOf(song.lines)
        lineWidth == maxNotesPerLine * (patternWidth + spacing * 2)
        lineHeight == patternHeight + spacing * 3
        margins == [top |-> spacing * 2, right |-> spacing * 2,
                    bottom |-> spacing * 2, left |-> spacing * 2]
        totalWidth == lineWidth + margins.left + margins.right
        totalHeight == Max({Len(song.lines), 1}) * lineHeight
                       + margins.top + margins.bottom + spacing * 2
    IN  [totalWidth |-> totalWidth,
         totalHeight |-> totalHeight,
         lineHeight |-> lineHeight,
         patternWidth |-> patternWidth,
         patternHeight |-> patternHeight,
         margins |-> margins]

\* updateCanvasSize: the configuration after it, and the canvas and context
updateCanvasSize(layout, cfg, d) ==
    LET sized == [cfg EXCEPT !.canvasWidth = layout.totalWidth,
                             !.canvasHeight = layout.totalHeight]
    IN  [config |-> sized] @@ setupHighDPICanvas(sized, d)

\* renderTitle: x is canvasWidth / 2, kept as twice its value, and y is
\* margins.top / 2
renderTitle(title, layout, cfg) ==
    [kind |-> "title",
     text |-> title,
     twiceX |-> cfg.canvasWidth,
     y |-> layout.margins.top \div 2,
     ink |-> cfg.colors.text]

\* renderFingeringPattern: the label and the four holes drawn at x, y
renderFingeringPattern(pattern, x, y, cfg) ==
    [kind |-> "pattern",
     note |-> pattern.note,
     holes |-> pattern.holes,
     x |-> x,
     y |-> y,
     holeRadius |-> cfg.holeRadius,
     inks |-> cfg.colors]

\* noteXOf counting only the notes drawn before this one
noteXOfDrawn(notes, noteIndex, layout, cfg, fingeringPatterns) ==
    layout.margins.left
    + Cardinality({j \in 1..noteIndex : notes[j] \in DOMAIN fingeringPatterns})
      * (layout.patternWidth + cfg.spacing * 2)

\* x of the note at the 0-based noteIndex of its line
noteXOf(notes, noteIndex, layout, cfg, fingeringPatterns) ==
    layout.margins.left + (noteIndex * (layout.patternWidth + cfg.spacing * 2))

\* renderLine: the patterns drawn for the line at the 0-based lineIndex
renderLine(notes, lineIndex, layout, fingeringPatterns, cfg) ==
    LET startY == layout.margins.top + cfg.spacing * 2 + (lineIndex * layout.lineHeight)
    IN  Flat([k \in 1..Len(notes) |->
                LET noteIndex == k - 1
                    note == notes[k]
                IN  IF note \in DOMAIN fingeringPatterns
                    THEN <<renderFingeringPattern(
                               fingeringPatterns[note],
                               noteXOf(notes, noteIndex, layout, cfg, fingeringPatterns),
                               startY, cfg)>>
                    ELSE <<>>])

\* ChartRenderer.renderChart: the configuration, canvas and context after it,
\* and the number of runs of setupHighDPICanvas it made
renderChart(song, fingeringPatterns, cfg, d) ==
    LET layout == calculateLayout(song, cfg)
        sized == updateCanvasSize(layout, cfg, d)
        lines == [i \in 1..Len(song.lines) |->
                    renderLine(song.lines[i], i - 1, layout, fingeringPatterns,
                               sized.config)]
    IN  [config |-> sized.config,
         canvas |-> sized.canvas,
         ctx |-> [scale |-> sized.ctx.scale,
                  fill |-> sized.config.colors.background,
                  marks |-> <<renderTitle(song.title, layout, sized.config)>>
                            \o Flat(lines)],
         setups |-> 1]

\* the pixel a fillStyle or strokeStyle paints: the colours of the
\* configurations are opaque, of the form #rrggbb
pixelOf(colour) ==
    [r |-> parseHexPair(colour[2], colour[3]),
     g |-> parseHexPair(colour[4], colour[5]),
     b |-> parseHexPair(colour[6], colour[7]),
     a |-> 255]

\* the pixels of a drawn title or pattern
pixelsOfMark(m) ==
    IF m.kind = "title"
    THEN IF Len(Inked(m.text)) > 0 THEN {pixelOf(m.ink)} ELSE {}
    ELSE (IF Len(Inked(m.note)) > 0 THEN {pixelOf(m.inks.text)} ELSE {})
         \cup (IF m.holeRadius > 0
                THEN UNION {IF m.holes[h]
                            THEN {pixelOf(m.inks.holeFilled)}
                            ELSE {pixelOf(m.inks.holeEmpty), pixelOf(m.inks.holeFilled)}
                            : h \in 1..4}
                ELSE {})

\* getImageData(0, 0, canvas.width, canvas.height).data, as the set of its pixels
getImageData(cv, cx) ==
    IF cv.width * cv.height = 0 THEN {}
    ELSE (IF cx.fill = <<>> THEN {[r |-> 0, g |-> 0, b |-> 0, a |-> 0]}
          ELSE {pixelOf(cx.fill)})
         \cup UNION {pixelsOfMark(cx.marks[i]) : i \in 1..Len(cx.marks)}

\* the test hasContent makes on one pixel
differsFrom(p, bgColor) ==
    p.a > 0 /\ bgColor.found /\ (p.r # bgColor.r \/ p.g # bgColor.g \/ p.b # bgColor.b)

hasContent(cv, cx, cfg) ==
    \E p \in getImageData(cv, cx) : differsFrom(p, hexToRgb(cfg.colors.background))

\* clear: the fill covers the surface, whose size is the configured one scaled
clear(cx, cfg) == [cx EXCEPT !.fill = cfg.colors.background, !.marks = <<>>]

\* { ...this.config, ...newConfig }
mergeConfig(cfg, newConfig) ==
    [f \in DOMAIN cfg |-> IF f \in DOMAIN newConfig THEN newConfig[f] ELSE cfg[f]]

(***************************************************************************)
(* Export file names: ChartRenderer.generateFilename and                   *)
(* ExportManager.generateFilename.  A Date is its UTC fields.              *)
(***************************************************************************)
Digits == <<"0", "1", "2", "3", "4", "5", "6", "7", "8", "9">>
DigitSet == {Digits[i] : i \in 1..10}

\* \w of a regular expression without the u flag
WordChars == LowerSet \cup UpperSet \cup DigitSet \cup {"_"}

\* n in decimal, w digits wide
pad(n, w) == [i \in 1..w |-> Digits[((n \div (10 ^ (w - i))) % 10) + 1]]

\* Date.prototype.toISOString: YYYY-MM-DDTHH:mm:ss.sssZ
toISOString(d) ==
    pad(d.year, 4) \o <<"-">> \o pad(d.month, 2) \o <<"-">> \o pad(d.day, 2) \o <<"T">>
        \o pad(d.hours, 2) \o <<":">> \o pad(d.minutes, 2) \o <<":">> \o pad(d.seconds, 2)
        \o <<".">> \o pad(d.milliseconds, 3) \o <<"Z">>

\* s.substring(0, n)
substring0(s, n) == SubSeq(s, 1, IF n < Len(s) THEN n ELSE Len(s))

\* replace(/[^\w\s-]/g, '')
removeSpecial(s) == SelectSeq(s, LAMBDA c : c \in WordChars \cup WhiteSpace \cup {"-"})

\* replace(/\s+/g, '-')
spacesToHyphens(s) ==
    LET kept == SelectSeq(Indexes(s),
                          LAMBDA i : ~(s[i] \in WhiteSpace /\ i > 1 /\ s[i - 1] \in WhiteSpace))
    IN  [k \in 1..Len(kept) |-> IF s[kept[k]] \in WhiteSpace THEN "-" ELSE s[kept[k]]]

\* replace(/-+/g, '-')
collapseHyphens(s) ==
    LET kept == SelectSeq(Indexes(s), LAMBDA i : ~(s[i] = "-" /\ i > 1 /\ s[i - 1] = "-"))
    IN  [k \in 1..Len(kept) |-> s[kept[k]]]

\* replace(/^-|-$/g, '')
stripHyphens(s) ==
    LET a == IF Len(s) > 0 /\ s[1] = "-" THEN SubSeq(s, 2, Len(s)) ELSE s
    IN  IF Len(a) > 0 /\ a[Len(a)] = "-" THEN SubSeq(a, 1, Len(a) - 1) ELSE a

\* the chain of replacements that gives cleanTitle
cleanTitleOf(title, maxLength) ==
    substring0(toLowerCase(stripHyphens(collapseHyphens(spacesToHyphens(
                   removeSpecial(trim(title)))))),
               maxLength)

\* new Date().toISOString().slice(0, 19).replace(/[:-]/g, '').toLowerCase()
timestampOf(now) ==
    toLowerCase(SelectSeq(SubSeq(toISOString(now), 1, 19), LAMBDA c : c \notin {":", "-"}))

OcarinaChart == <<"o", "c", "a", "r", "i", "n", "a", "-", "c", "h", "a", "r", "t">>
Png == <<"p", "n", "g">>

\* ChartRenderer.generateFilename, called at the instant now
generateFilename(songTitle, now) ==
    LET cleanTitle == cleanTitleOf(songTitle, 50)
        timestamp == timestampOf(now)
    IN  IF Len(cleanTitle) > 0
        THEN cleanTitle \o <<"-">> \o timestamp \o <<".">> \o Png
        ELSE OcarinaChart \o <<"-">> \o timestamp \o <<".">> \o Png

DEFAULT_EXPORT_CONFIG ==
    [defaultFormat |-> "png", quality |-> 1, includeTimestamp |-> TRUE,
     maxFilenameLength |-> 50]

\* ExportManager.generateFilename, called at the instant now; a string
\* argument is [string |-> s], any other argument is a Song
ExportManager_generateFilename(songTitle, format, cfg, now) ==
    LET titleString == IF "string" \in DOMAIN songTitle THEN songTitle.string
                       ELSE songTitle.title
        cleanTitle == cleanTitleOf(titleString, cfg.maxFilenameLength)
        name == IF Len(cleanTitle) > 0 THEN cleanTitle ELSE OcarinaChart
        filename == IF cfg.includeTimestamp THEN name \o <<"-">> \o timestampOf(now)
                    ELSE name
    IN  filename \o <<".">> \o format

(***************************************************************************)
(* StateManager.  Its state is appState and uiState; null is the record    *)
(* below.  lastUpdateTimestamp (new Date()) is left out, and so are the    *)
(* collapse flags of uiState, which no operation writes.  isUpdating is    *)
(* false between calls, and the listener UIController subscribes does not  *)
(* update the state.                                                       *)
(***************************************************************************)
null == [isNull |-> TRUE]

ValidEmptyResult == [isValid |-> TRUE, errors |-> <<>>, warnings |-> <<>>]
InvalidEmptyResult == [isValid |-> FALSE, errors |-> <<>>, warnings |-> <<>>]

DEFAULT_APP_STATE ==
    [currentSong |-> null,
     inputText |-> <<>>,
     validationResult |-> ValidEmptyResult,
     chartConfig |-> [canvasWidth |-> 800,
                      canvasHeight |-> 600,
                      holeRadius |-> 15,
                      spacing |-> 20,
                      colors |-> [background |-> <<"#", "f", "f", "f", "f", "f", "f">>,
                                  holeFilled |-> <<"#", "3", "3", "3", "3", "3", "3">>,
                                  holeEmpty |-> <<"#", "f", "f", "f", "f", "f", "f">>,
                                  text |-> <<"#", "3", "3", "3", "3", "3", "3">>]],
     isLoading |-> FALSE,
     errors |-> <<>>,
     isExporting |-> FALSE]

DEFAULT_UI_STATE ==
    [isMobile |-> FALSE,
     canvasSize |-> [width |-> DEFAULT_APP_STATE.chartConfig.canvasWidth,
                     height |-> DEFAULT_APP_STATE.chartConfig.canvasHeight]]

\* { ...a, ...b }
spread(a, b) == [f \in DOMAIN a \cup DOMAIN b |-> IF f \in DOMAIN b THEN b[f] ELSE a[f]]

\* validateStateConsistency that leaves the song where it is
validateStateConsistencyKeepSong(m) ==
    IF m.uiState.canvasSize.width # m.appState.chartConfig.canvasWidth
          \/ m.uiState.canvasSize.height # m.appState.chartConfig.canvasHeight
    THEN [m EXCEPT !.uiState.canvasSize =
                        [width |-> m.appState.chartConfig.canvasWidth,
                         height |-> m.appState.chartConfig.canvasHeight]]
    ELSE m

validateStateConsistency(m) ==
    LET a == IF ~m.appState.validationResult.isValid /\ m.appState.currentSong # null
             THEN [m EXCEPT !.appState.currentSong = null]
             ELSE m
    IN  IF a.uiState.canvasSize.width # a.appState.chartConfig.canvasWidth
              \/ a.uiState.canvasSize.height # a.appState.chartConfig.canvasHeight
        THEN [a EXCEPT !.uiState.canvasSize =
                            [width |-> a.appState.chartConfig.canvasWidth,
                             height |-> a.appState.chartConfig.canvasHeight]]
        ELSE a

\* updateState(update) while isUpdating is false
updateState(m, update) ==
    validateStateConsistency([m EXCEPT !.appState = spread(m.appState, update)])

\* updateUIState(update)
updateUIState(m, update) ==
    LET previousUIState == m.uiState
        n == [m EXCEPT !.uiState = spread(m.uiState, update)]
    IN  IF "canvasSize" \in DOMAIN update
              /\ (update.canvasSize.width # previousUIState.canvasSize.width
                    \/ update.canvasSize.height # previousUIState.canvasSize.height)
        THEN updateState(n, [chartConfig |->
                                spread(n.appState.chartConfig,
                                       [canvasWidth |-> update.canvasSize.width,
                                        canvasHeight |-> update.canvasSize.height])])
        ELSE n

\* setSong(song); song?.metadata?.originalInput || this.appState.inputText
setSong(m, song) ==
    updateState(m,
        [currentSong |-> song,
         validationResult |-> IF song # null THEN ValidEmptyResult ELSE InvalidEmptyResult,
         inputText |-> IF song # null /\ Len(song.metadata.originalInput) > 0
                       THEN song.metadata.originalInput
                       ELSE m.appState.inputText])

setInputText(m, text) == updateState(m, [inputText |-> text])

setValidationResult(m, validation) ==
    updateState(m,
        [validationResult |-> validation,
         currentSong |-> IF validation.isValid THEN m.appState.currentSong ELSE null])

addError(m, error) == updateState(m, [errors |-> Append(m.appState.errors, error)])

clearErrors(m) == updateState(m, [errors |-> <<>>])

setLoading(m, isLoading) == updateState(m, [isLoading |-> isLoading])

setExporting(m, isExporting) == updateState(m, [isExporting |-> isExporting])

StateManager_updateChartConfig(m, cfg) ==
    updateState(m, [chartConfig |-> spread(m.appState.chartConfig, cfg)])

\* reset(); isMobile is what updateResponsiveState finds for the window
reset(m, isMobile) ==
    [appState |-> DEFAULT_APP_STATE,
     uiState |-> [DEFAULT_UI_STATE EXCEPT !.isMobile = isMobile]]

StateManager_canExport(m) ==
    /\ m.appState.currentSong # null
    /\ ~m.appState.isLoading
    /\ ~m.appState.isExporting

\* new StateManager(initialState) in a window that is mobile or not
newStateManager(initialState, isMobile) ==
    [appState |-> spread(DEFAULT_APP_STATE, initialState),
     uiState |-> [DEFAULT_UI_STATE EXCEPT !.isMobile = isMobile]]

(***************************************************************************)
(* PerformanceOptimizedRenderer, which extends ChartRenderer: its render   *)
(* cache and its dirty regions.  markRegionDirty has no caller, so the     *)
(* list of dirty regions is empty whenever renderChart begins.             *)
(***************************************************************************)
\* renderCache and dirtyRegions as the constructor and clearCache() set them
newRenderCache == [song |-> null, layout |-> null, dirtyRegions |-> <<>>]

\* JSON.stringify of two arrays of arrays of strings is equal exactly where
\* the arrays are
canUseCachedRender(c, song) ==
    IF c.song = null \/ c.layout = null THEN FALSE
    ELSE /\ c.song.title = song.title
         /\ Len(c.song.lines) = Len(song.lines)
         /\ c.song.lines = song.lines
         /\ Len(c.dirtyRegions) = 0

layoutEquals(layout1, layout2) ==
    IF layout1 = null \/ layout2 = null THEN FALSE
    ELSE /\ layout1.totalWidth = layout2.totalWidth
         /\ layout1.totalHeight = layout2.totalHeight
         /\ layout1.lineHeight = layout2.lineHeight
         /\ layout1.patternWidth = layout2.patternWidth
         /\ layout1.patternHeight = layout2.patternHeight

markEntireCanvasDirty(cfg) ==
    <<[x |-> 0, y |-> 0, width |-> cfg.canvasWidth, height |-> cfg.canvasHeight]>>

\* PerformanceOptimizedRenderer.renderChart on a renderer with render cache c,
\* configuration cfg, canvas cv and context cx.  isRendering is false when a
\* call begins.  With a layout that changed the whole canvas is dirty and the
\* chart is rendered in full by super.renderChart; with the same layout no
\* region is dirty and the chart is rendered in full as well.
optimizedRenderChart(c, song, fingeringPatterns, cfg, cv, cx, d) ==
    IF canUseCachedRender(c, song)
    THEN [cache |-> c, config |-> cfg, canvas |-> cv, ctx |-> cx]
    ELSE LET layout == calculateLayout(song, cfg)
             layoutChanged == ~layoutEquals(layout, c.layout)
             sized == IF layoutChanged THEN updateCanvasSize(layout, cfg, d)
                      ELSE [config |-> cfg, canvas |-> cv, ctx |-> cx]
             dirtyRegions == IF layoutChanged THEN markEntireCanvasDirty(sized.config)
                             ELSE c.dirtyRegions
             full == renderChart(song, fingeringPatterns, sized.config, d)
         IN  [cache |-> [song |-> song, layout |-> layout, dirtyRegions |-> <<>>],
              config |-> full.config,
              canvas |-> full.canvas,
              ctx |-> full.ctx]

(***************************************************************************)
(* The application: RealTimeTextInput, RealTimeApp, PreviewController with *)
(* its ChartRenderer, and the UIController that forwards RealTimeApp's     *)
(* events to its StateManager.  UIController constructs RealTimeApp        *)
(* without a title input, so the text holds the title line.  The           *)
(* operations below take and return the whole of that state:               *)
(*   app: currentText and whether a debounced processInput is scheduled,   *)
(*        RealTimeApp's currentSong and currentValidation,                 *)
(*        PreviewController's currentSong (previewSong);                   *)
(*   sm: the StateManager;                                                 *)
(*   callerConfig: PreviewController's chartConfig, the object its         *)
(*        renderer was constructed with; chartConfig, aliased, canvas,     *)
(*        ctx: the renderer.                                               *)
(* The DOM elements that show messages are left out.                       *)
(***************************************************************************)
\* the Map updatePreview fills: a pattern for every note of the song that
\* getPattern finds
patternsOf(song) ==
    LET notes == Flat(song.lines)
        found == {notes[k] : k \in {i \in 1..Len(notes) : getPattern(notes[i]).found}}
    IN  [note \in found |-> getPattern(note).pattern]

\* PreviewController.setupCanvas(): assigning the size of the canvas clears it
\* and resets its context; the CSS size stays
setupCanvas(w) ==
    [w EXCEPT !.canvas = [@ EXCEPT !.width = w.callerConfig.canvasWidth,
                                   !.height = w.callerConfig.canvasHeight],
              !.ctx = [scale |-> 1, fill |-> <<>>, marks |-> <<>>]]

\* showEmptyState and showErrorState: this.renderer.clear()
showState(w) == [w EXCEPT !.ctx = clear(w.ctx, w.chartConfig)]

\* PreviewController.updatePreview(song) with autoUpdate, on a display of
\* device pixel ratio d
updatePreview(w, song, d) ==
    LET after == renderChart(song, patternsOf(song), w.chartConfig, d)
    IN  [w EXCEPT !.app.previewSong = song,
                  !.chartConfig = after.config,
                  !.callerConfig = IF w.aliased THEN after.config ELSE @,
                  !.canvas = after.canvas,
                  !.ctx = after.ctx]

\* PreviewController.clearPreview()
clearPreview(w) == showState(showState([w EXCEPT !.app.previewSong = null]))

\* PreviewController.handleValidationError()
handleValidationError(w) == showState(w)

\* PreviewController.hasContent()
PreviewController_hasContent(w) ==
    /\ w.app.previewSong # null
    /\ hasContent(w.canvas, w.ctx, w.chartConfig)

\* PreviewController.updateChartConfig(newConfig)
PreviewController_updateChartConfig(w, newConfig, d) ==
    LET own == spread(w.callerConfig, newConfig)
        merged == mergeConfig(w.chartConfig, own)
        updated == [w EXCEPT !.callerConfig = own,
                             !.chartConfig = merged,
                             !.aliased = FALSE,
                             !.canvas = setupHighDPICanvas(merged, d).canvas,
                             !.ctx = setupHighDPICanvas(merged, d).ctx]
    IN  IF w.app.previewSong # null
        THEN updatePreview(updated, w.app.previewSong, d)
        ELSE updated

\* PreviewController.resize() in a container of the given width; heights are
\* kept to whole pixels
PreviewController_resize(w, containerWidth, d) ==
    LET maxWidth == containerWidth - 40
    IN  IF maxWidth > 0 /\ maxWidth # w.callerConfig.canvasWidth
        THEN PreviewController_updateChartConfig(
                 w,
                 [canvasWidth |-> maxWidth,
                  canvasHeight |-> (maxWidth * w.callerConfig.canvasHeight)
                                       \div w.callerConfig.canvasWidth],
                 d)
        ELSE w

\* UIController.handleSongChanged(song) up to the listener of the embedding
\* page
handleSongChanged(w, song) == [w EXCEPT !.sm = setSong(w.sm, song)]

\* UIController.handleValidationChanged(result)
handleValidationChanged(w, validation) ==
    [w EXCEPT !.sm = setValidationResult(w.sm, validation)]

\* UIController.handleTextChanged(text)
handleTextChanged(w, text) == [w EXCEPT !.sm = setInputText(w.sm, text)]

\* RealTimeApp.handleSongParsed(song)
handleSongParsed(w, song, d) ==
    handleSongChanged(updatePreview([w EXCEPT !.app.currentSong = song], song, d), song)

\* RealTimeApp.handleValidationResult(result)
handleValidationResult(w, validation) ==
    LET noted == [w EXCEPT !.app.currentValidation = validation]
        cleared == IF ~validation.isValid
                   THEN handleSongChanged(
                            handleValidationError([noted EXCEPT !.app.currentSong = null]),
                            null)
                   ELSE noted
    IN  handleValidationChanged(cleared, validation)

\* RealTimeApp.handleTextChange(text)
handleTextChange(w, text) ==
    LET cleared == IF Len(trim(text)) = 0
                   THEN handleSongChanged(
                            clearPreview([w EXCEPT !.app.currentSong = null,
                                                   !.app.currentValidation = null]),
                            null)
                   ELSE w
    IN  handleTextChanged(cleared, text)

\* RealTimeTextInput.processInput(), given what its parser returns for the
\* trimmed text: validationResult from validateInput(text) and, where that is
\* valid, song from parseSong(text).  validateInput and parseSong do not throw
\* for a text that validates, and no handler of the application throws, so the
\* catch clause is not entered.
processInput(w, validationResult, song, d) ==
    LET text == trim(w.app.currentText)
    IN  IF Len(text) = 0 THEN w
        ELSE LET validated == handleValidationResult(w, validationResult)
             IN  IF ~validationResult.isValid THEN validated
                 ELSE handleSongParsed(validated, song, d)

\* RealTimeTextInput.handleInput(event) for a text area that holds newText:
\* the debounced processInput is scheduled
handleInput(w, newText) ==
    IF newText # w.app.currentText
    THEN [handleTextChange([w EXCEPT !.app.currentText = newText], newText)
             EXCEPT !.app.pending = TRUE]
    ELSE w

\* RealTimeTextInput.setText(text), which RealTimeApp.setText(text) calls
\* where there is no title input
setText(w, text, validationResult, song, d) ==
    processInput(handleTextChange([w EXCEPT !.app.currentText = text], text),
                 validationResult, song, d)

\* RealTimeApp.canExport()
canExport(w) == PreviewController_hasContent(w)

\* what exportChart, getExportDataURL and exportAsBlob begin with
exportGuard(w) ==
    IF ~canExport(w) THEN [thrown |-> "No chart available to export"]
    ELSE [exported |-> w.app.previewSong.title]

\* UIController.updateChartConfig(config)
UIController_updateChartConfig(w, cfg, d) ==
    PreviewController_updateChartConfig(
        [w EXCEPT !.sm = StateManager_updateChartConfig(w.sm, cfg)], cfg, d)

(***************************************************************************)
(* The inputs explored: every short string over Alphabet, and the inputs   *)
(* of the unit tests and of the documentation, each extended by every      *)
(* shorter string, and the inputs at the default limits.                   *)
(***************************************************************************)
Alphabet == {"F", "B", "b", "X", " ", ",", "\n"}

Strings(n) == UNION {[1..k -> Alphabet] : k \in 0..n}

ExPositions == <<"T", "e", "s", "t", "\n", "F", " ", "G", " ", "X", " ", "A", " ", "Y">>
ExSongFoo == <<"S", "o", "n", "g", ":", " ", "F", "o", "o", "\n", "F">>
ExTitleFoo == <<"T", "i", "t", "l", "e", ":", " ", "F", "o", "o", "\n", "F">>
ExNameOnly == <<"n", "A", "m", "E", ":", "\n", "B">>
ExSongs == <<"S", "o", "n", "g", "s", ":", " ", "x", "\n", "F">>
ExInnerPrefix == <<"a", " ", "S", "o", "n", "g", ":", " ", "b", "\n", "F">>
ExTwicePrefix == <<"t", "i", "t", "l", "e", ":", " ", "N", "a", "m", "e", ":", "\n", "F">>
ExSevenNotes ==
    <<"T", "i", "t", "l", "e", "\n",
      "F", " ", "G", " ", "A", " ", "B", "b", " ", "C", " ", "D", " ", "E">>
ExMixedCase == <<"T", "\n", "f", " ", "g", " ", "a", " ", "b", "b", " ", "c", " ", "d", " ", "e">>
ExWindows == <<"T", "\r", "\n", "F", " ", "G", " ", "A", "\r", "\n", "C", " ", "D", " ", "E">>
ExWhitespace == <<" ", " ", " ", "\n", " ", " ", "\t", " ", " ">>
ExSeparators == <<"T", "\n", "F", ",", "G", "|", "A", "-", "B", "b">>
ExBlankLines == <<"T", "\n", "\n", "F", " ", "X", "\n", "\n", "B">>
ExG == <<"G">>
ExA == <<"A">>
ExC == <<"C">>
ExD == <<"D">>
ExE == <<"E">>
ExBb == <<"B", "b">>
ExLowerF == <<"f">>
ExTitleFGA == <<"T", "i", "t", "l", "e", "\n", "F", " ", "G", " ", "A">>
ExSkipEmpty ==
    <<"T", "e", "s", "t", " ", "S", "o", "n", "g", "\n", "F", " ", "G", " ", "A", "\n", "\n",
      "C", " ", "D", " ", "E", "\n", "\n", "G", " ", "A", " ", "B", "b">>
ExPlainSeparators == <<"T", "\n", "F", " ", "G", " ", "A", " ", "B", "b">>
ExSeparatorKinds ==
    <<"T", "e", "s", "t", " ", "S", "o", "n", "g", "\n", "F", " ", "G", " ", "A", "\n",
      "F", ",", "G", ",", "A", "\n", "F", "|", "G", "|", "A", "\n", "F", "-", "G", "-", "A">>

Examples ==
    {ExPositions, ExSongFoo, ExTitleFoo, ExNameOnly, ExSongs,
     ExInnerPrefix, ExTwicePrefix, ExSevenNotes, ExMixedCase, ExWindows,
     ExWhitespace, ExSeparators, ExBlankLines, ExG, ExA,
     ExC, ExD, ExE, ExBb, ExTitleFGA,
     ExSkipEmpty, ExPlainSeparators, ExSeparatorKinds, ExLowerF}

\* inputs at and just above the default limits: maxLines and maxLines + 1
\* lines, maxNotesPerLine and maxNotesPerLine + 1 tokens on a line, and
\* maxLines + 1 blank lines
ExAtLineLimit == <<"T">> \o Repeat(<<"\n", "F">>, DEFAULT_CONFIG.maxLines - 1)
ExOverLineLimit == <<"T">> \o Repeat(<<"\n", "F">>, DEFAULT_CONFIG.maxLines)
ExAtNoteLimit == <<"T", "\n">> \o Repeat(<<"F", " ">>, DEFAULT_CONFIG.maxNotesPerLine)
ExOverNoteLimit == <<"T", "\n">> \o Repeat(<<"F", " ">>, DEFAULT_CONFIG.maxNotesPerLine + 1)
ExBlankOverLineLimit == Repeat(<<"\n">>, DEFAULT_CONFIG.maxLines)

LimitExamples ==
    {ExAtLineLimit, ExOverLineLimit, ExAtNoteLimit, ExOverNoteLimit, ExBlankOverLineLimit}

Inputs ==
    Strings(MaxLen) \cup {e \o t : e \in Examples, t \in Strings(MaxTail)} \cup LimitExamples

\* the configurations the constructor is given: none, and those of the tests
Configs ==
    {DEFAULT_CONFIG,
     [DEFAULT_CONFIG EXCEPT !.autoConvertB = FALSE],
     [DEFAULT_CONFIG EXCEPT !.maxLines = 3],
     [DEFAULT_CONFIG EXCEPT !.maxNotesPerLine = 3]}

(***************************************************************************)
(* The state: a parser constructed with config, the text it is given, the  *)
(* operation called on that text and what it returned.  The operations are *)
(* pure, so each run applies one of them once.                             *)
(***************************************************************************)
\* no application is constructed around the operations exercised
NoApp ==
    /\ app = <<>>
    /\ sm = <<>>
    /\ cache = <<>>

\* no canvas is drawn on where the parser and the fingering engine are
\* exercised
NoCanvas ==
    /\ NoApp
    /\ dpr = 1
    /\ callerConfig = <<>>
    /\ chartConfig = <<>>
    /\ aliased = FALSE
    /\ canvas = <<>>
    /\ ctx = <<>>

\* no renderer is constructed where the parser is exercised
NoRenderer ==
    /\ args = <<>>
    /\ NoCanvas

Init ==
    /\ input \in Inputs
    /\ config \in Configs
    /\ call = "none"
    /\ result = <<>>
    /\ NoRenderer

ValidateInput ==
    /\ call = "none"
    /\ call' = "validateInput"
    /\ result' = validateInput(input, config)
    /\ UNCHANGED <<avars, input, config, rvars>>

ParseSong ==
    /\ call = "none"
    /\ call' = "parseSong"
    /\ result' = parseSong(input, config)
    /\ UNCHANGED <<avars, input, config, rvars>>

GetPattern ==
    /\ call = "none"
    /\ call' = "getPattern"
    /\ result' = getPattern(input)
    /\ UNCHANGED <<avars, input, config, rvars>>

Next == ValidateInput \/ ParseSong \/ GetPattern

Spec == Init /\ [][Next]_vars

(***************************************************************************)
(* The renderer: a ChartRenderer constructed on a canvas with a            *)
(* configuration of the callers, then given songs that parseSong returns   *)
(* and pattern maps, cleared, reconfigured and queried in any order.       *)
(***************************************************************************)
White == <<"#", "f", "f", "f", "f", "f", "f">>
Black == <<"#", "0", "0", "0", "0", "0", "0">>
Grey == <<"#", "3", "3", "3", "3", "3", "3">>

\* DEFAULT_CHART_CONFIG of PreviewController and of StateManager
DEFAULT_CHART_CONFIG ==
    [canvasWidth |-> 800,
     canvasHeight |-> 600,
     holeRadius |-> 15,
     spacing |-> 20,
     colors |-> [background |-> White, holeFilled |-> Grey,
                 holeEmpty |-> White, text |-> Grey]]

\* testConfig of the ChartRenderer tests
testConfig ==
    [canvasWidth |-> 800,
     canvasHeight |-> 600,
     holeRadius |-> 10,
     spacing |-> 20,
     colors |-> [background |-> White, holeFilled |-> Black,
                 holeEmpty |-> White, text |-> Black]]

ChartConfigs == {DEFAULT_CHART_CONFIG, testConfig}

\* the partial configurations given to updateConfig
ConfigUpdates ==
    {[canvasWidth |-> 400, canvasHeight |-> 300],
     [holeRadius |-> 10],
     [spacing |-> 10]}

\* window.devicePixelRatio, 0 where it is not defined
DevicePixelRatios == {0, 1, 2}

ExOneNote == <<"T", "\n", "F">>
ExNoNotes == <<"T", "\n", "-", ",">>
ExTwoLines == <<"T", "\n", "F", " ", "G", "\n", "E">>
ExLongerLines == <<"T", "\n", "F", " ", "G", " ", "C", "\n", "E", " ", "F">>

\* the songs rendered: those parsed from these texts
SongTexts == {ExOneNote, ExTitleFGA, ExNoNotes, ExTwoLines, ExLongerLines}

Songs == {parseSong(t, DEFAULT_CONFIG).song : t \in SongTexts}

\* the pattern maps: of all supported notes, of F alone (the tests), of none
PatternMaps ==
    {FINGERING_PATTERNS,
     [n \in {<<"F">>} |-> FINGERING_PATTERNS[n]],
     [n \in {} |-> FINGERING_PATTERNS[n]]}

\* no parser is exercised where the renderer is
NoParser ==
    /\ input = <<>>
    /\ config = DEFAULT_CONFIG

\* new ChartRenderer(canvas, config)
RenderInit ==
    /\ NoParser
    /\ NoApp
    /\ call = "none"
    /\ result = <<>>
    /\ args = <<>>
    /\ \E r \in DevicePixelRatios : dpr = dprOf(r)
    /\ callerConfig \in ChartConfigs
    /\ chartConfig = callerConfig
    /\ aliased = TRUE
    /\ canvas = setupHighDPICanvas(callerConfig, dpr).canvas
    /\ ctx = setupHighDPICanvas(callerConfig, dpr).ctx

\* the object the constructor was given, written through this.config while
\* the two are one object
throughAlias(cfg) == IF aliased THEN cfg ELSE callerConfig

CalculateLayout ==
    \E song \in Songs :
        /\ call' = "calculateLayout"
        /\ args' = [song |-> song]
        /\ result' = calculateLayout(song, chartConfig)
        /\ UNCHANGED <<avars, input, config, dpr, callerConfig, chartConfig, aliased, canvas, ctx>>

RenderChart ==
    \E song \in Songs, fingeringPatterns \in PatternMaps :
        LET after == renderChart(song, fingeringPatterns, chartConfig, dpr)
        IN  /\ call' = "renderChart"
            /\ args' = [song |-> song, fingeringPatterns |-> fingeringPatterns]
            /\ result' = [setups |-> after.setups]
            /\ chartConfig' = after.config
            /\ callerConfig' = throughAlias(after.config)
            /\ canvas' = after.canvas
            /\ ctx' = after.ctx
            /\ UNCHANGED <<avars, input, config, dpr, aliased>>

HasContent ==
    /\ call' = "hasContent"
    /\ args' = <<>>
    /\ result' = hasContent(canvas, ctx, chartConfig)
    /\ UNCHANGED <<avars, input, config, dpr, callerConfig, chartConfig, aliased, canvas, ctx>>

Clear ==
    /\ call' = "clear"
    /\ args' = <<>>
    /\ result' = <<>>
    /\ ctx' = clear(ctx, chartConfig)
    /\ UNCHANGED <<avars, input, config, dpr, callerConfig, chartConfig, aliased, canvas>>

\* this.config becomes a new object, no longer the one of the caller
UpdateConfig ==
    \E newConfig \in ConfigUpdates :
        LET merged == mergeConfig(chartConfig, newConfig)
        IN  /\ call' = "updateConfig"
            /\ args' = [newConfig |-> newConfig]
            /\ result' = <<>>
            /\ chartConfig' = merged
            /\ aliased' = FALSE
            /\ canvas' = setupHighDPICanvas(merged, dpr).canvas
            /\ ctx' = setupHighDPICanvas(merged, dpr).ctx
            /\ UNCHANGED <<avars, input, config, dpr, callerConfig>>

RenderNext == CalculateLayout \/ RenderChart \/ HasContent \/ Clear \/ UpdateConfig

RenderSpec == RenderInit /\ [][RenderNext]_vars

(***************************************************************************)
(* The optimized renderer in use: charts are rendered, the surface is      *)
(* cleared, the configuration is updated and the cache is cleared, in any  *)
(* order.                                                                  *)
(***************************************************************************)
\* new PerformanceOptimizedRenderer(canvas, config)
OptimizedInit ==
    /\ NoParser
    /\ app = <<>>
    /\ sm = <<>>
    /\ cache = newRenderCache
    /\ call = "none"
    /\ result = <<>>
    /\ args = <<>>
    /\ \E r \in DevicePixelRatios : dpr = dprOf(r)
    /\ callerConfig \in ChartConfigs
    /\ chartConfig = callerConfig
    /\ aliased = TRUE
    /\ canvas = setupHighDPICanvas(callerConfig, dpr).canvas
    /\ ctx = setupHighDPICanvas(callerConfig, dpr).ctx

OptimizedRenderChart ==
    \E song \in Songs, fingeringPatterns \in PatternMaps :
        LET after == optimizedRenderChart(cache, song, fingeringPatterns, chartConfig,
                                          canvas, ctx, dpr)
        IN  /\ call' = "renderChart"
            /\ args' = [song |-> song, fingeringPatterns |-> fingeringPatterns]
            /\ result' = <<>>
            /\ cache' = after.cache
            /\ chartConfig' = after.config
            /\ callerConfig' = throughAlias(after.config)
            /\ canvas' = after.canvas
            /\ ctx' = after.ctx
            /\ UNCHANGED <<app, sm, input, config, dpr, aliased>>

\* ChartRenderer.clear(), inherited
OptimizedClear ==
    /\ call' = "clear"
    /\ args' = <<>>
    /\ result' = <<>>
    /\ ctx' = clear(ctx, chartConfig)
    /\ UNCHANGED <<avars, input, config, dpr, callerConfig, chartConfig, aliased, canvas>>

\* ChartRenderer.updateConfig(newConfig), inherited
OptimizedUpdateConfig ==
    \E newConfig \in ConfigUpdates :
        LET merged == mergeConfig(chartConfig, newConfig)
        IN  /\ call' = "updateConfig"
            /\ args' = [newConfig |-> newConfig]
            /\ result' = <<>>
            /\ chartConfig' = merged
            /\ aliased' = FALSE
            /\ canvas' = setupHighDPICanvas(merged, dpr).canvas
            /\ ctx' = setupHighDPICanvas(merged, dpr).ctx
            /\ UNCHANGED <<avars, input, config, dpr, callerConfig>>

ClearCache ==
    /\ call' = "clearCache"
    /\ args' = <<>>
    /\ result' = <<>>
    /\ cache' = newRenderCache
    /\ UNCHANGED <<app, sm, input, config, dpr, callerConfig, chartConfig, aliased,
                   canvas, ctx>>

OptimizedNext ==
    \/ OptimizedRenderChart
    \/ OptimizedClear
    \/ OptimizedUpdateConfig
    \/ ClearCache

OptimizedSpec == OptimizedInit /\ [][OptimizedNext]_vars

(***************************************************************************)
(* Vocabulary of the properties.                                           *)
(***************************************************************************)
Validated == call = "validateInput"
Parsed == call = "parseSong"
Looked == call = "getPattern"

CanonicalNotes == { <<"F">>, <<"G">>, <<"A">>, <<"B", "b">>, <<"C">>, <<"D">>, <<"E">> }
LowerNames == { <<"f">>, <<"g">>, <<"a">>, <<"b", "b">>, <<"c">>, <<"d">>, <<"e">> }

\* the text is empty or holds white space only
Blank == \A i \in 1..Len(input) : input[i] \in WhiteSpace

\* the trimmed lines of the raw text, the title line first
InputLines == preprocessInput(input)
NoteLineNumbers == 2..Len(InputLines)

\* the tokens of raw line n
TokensOf(n) == rawNotesOfValidate(InputLines[n])
TokenPlaces == UNION {{<<n, p>> : p \in 1..Len(TokensOf(n))} : n \in NoteLineNumbers}

NamesNote(tok) == toLowerCase(tok) \in LowerNames
SpellsB(tok) == toLowerCase(tok) = <<"b">>
\* a token the parser does not accept under the configuration
Rejected(tok) == ~NamesNote(tok) /\ ~(SpellsB(tok) /\ config.autoConvertB)

ErrorIndexes == 1..Len(result.errors)
WarningIndexes == 1..Len(result.warnings)
Placed(d, n, p) ==
    "line" \in DOMAIN d /\ "position" \in DOMAIN d /\ d.line = n /\ d.position = p
UnsupportedErrors == {i \in ErrorIndexes : result.errors[i].type = UNSUPPORTED_NOTE}
UnsupportedAt(n, p) == {i \in UnsupportedErrors : Placed(result.errors[i], n, p)}
ErrorsAt(n, p) == {i \in ErrorIndexes : Placed(result.errors[i], n, p)}
WarningsAt(n, p) == {i \in WarningIndexes : Placed(result.warnings[i], n, p)}
ConversionsAt(n, p) ==
    {i \in WarningsAt(n, p) : result.warnings[i].type = NOTE_CONVERSION}
ErrorsSaying(text) ==
    {i \in ErrorIndexes :
        result.errors[i].type = PARSING_ERROR /\ result.errors[i].message.text = text}
TooManyLinesReported == ErrorsSaying("Too many lines") # {}
TooManyNotesReportedOn(n) ==
    \E i \in ErrorsSaying("Too many notes on line") :
        result.errors[i].line = n /\ result.errors[i].message.args[1] = n
LimitsReportedExactly ==
    /\ TooManyLinesReported <=> Len(InputLines) > config.maxLines
    /\ \A n \in NoteLineNumbers :
          TooManyNotesReportedOn(n) <=> Len(TokensOf(n)) > config.maxNotesPerLine
    /\ \A i \in ErrorsSaying("Too many notes on line") :
          result.errors[i].line \in NoteLineNumbers

(***************************************************************************)
(* C1: parseSong returns a Song exactly when validateInput reports no      *)
(* errors for the same text (warnings alone never make it fail); otherwise *)
(* it fails with one 'Parsing failed' error that carries every error       *)
(* message, and no Song, not even a partial one, is returned.              *)
(***************************************************************************)
Thm_C1 ==
    Parsed =>
        LET v == validateInput(input, config)
        IN  /\ result.ok <=> Len(v.errors) = 0
            /\ result.ok =>
                  /\ DOMAIN result = {"ok", "song"}
                  /\ DOMAIN result.song = {"title", "lines", "metadata"}
            /\ ~result.ok =>
                  /\ DOMAIN result = {"ok", "error"}
                  /\ result.error.prefix = "Parsing failed"
                  /\ Len(result.error.messages) = Len(v.errors)
                  /\ \A i \in 1..Len(v.errors) :
                        result.error.messages[i] = v.errors[i].message

\* a parse that failed with two or more messages joined
Wit_C1 == Parsed /\ ~result.ok /\ Len(result.error.messages) >= 2

(***************************************************************************)
(* C2: every note in the lines of a returned Song is one of the 7          *)
(* canonical names F, G, A, Bb, C, D, E, whatever the input and whatever   *)
(* autoConvertB is.                                                        *)
(***************************************************************************)
Thm_C2 ==
    Parsed /\ result.ok =>
        \A l \in 1..Len(result.song.lines) :
            \A k \in 1..Len(result.song.lines[l]) :
                result.song.lines[l][k] \in CanonicalNotes

\* a Song parsed from text with a lower-case b that holds a Bb
Wit_C2 ==
    /\ Parsed /\ result.ok
    /\ \E i \in 1..Len(input) : input[i] = "b"
    /\ \E l \in 1..Len(result.song.lines) :
          \E k \in 1..Len(result.song.lines[l]) : result.song.lines[l][k] = <<"B", "b">>

(***************************************************************************)
(* C3: the fingering table holds exactly the 7 patterns F=1111, G=1011,    *)
(* A=1110, Bb=1010, C=0011, D=0010, E=0100 (top-left, top-right,           *)
(* bottom-left, bottom-right; 1 = covered), a lookup returns the pattern   *)
(* of the note found, and two distinct notes never share a hole vector.    *)
(***************************************************************************)
HolesSpecified ==
    [n \in CanonicalNotes |->
        CASE n = <<"F">> -> <<1, 1, 1, 1>>
          [] n = <<"G">> -> <<1, 0, 1, 1>>
          [] n = <<"A">> -> <<1, 1, 1, 0>>
          [] n = <<"B", "b">> -> <<1, 0, 1, 0>>
          [] n = <<"C">> -> <<0, 0, 1, 1>>
          [] n = <<"D">> -> <<0, 0, 1, 0>>
          [] n = <<"E">> -> <<0, 1, 0, 0>>]

Thm_C3 ==
    /\ DOMAIN FINGERING_PATTERNS = CanonicalNotes
    /\ \A a, b \in CanonicalNotes :
          a # b => FINGERING_PATTERNS[a].holes # FINGERING_PATTERNS[b].holes
    /\ Looked /\ result.found =>
          /\ result.pattern.note \in CanonicalNotes
          /\ result.pattern.note = trim(input)
          /\ \A h \in 1..4 :
                result.pattern.holes[h] = (HolesSpecified[result.pattern.note][h] = 1)

\* a lookup that found the pattern of G
Wit_C3 == Looked /\ result.found /\ result.pattern.note = <<"G">>

(***************************************************************************)
(* C4: for text that is not empty, validateInput does not stop at the      *)
(* first problem: the one result holds the shape and limit errors together *)
(* with the diagnostics of every line after the title, among them exactly  *)
(* one UnsupportedNote error for each unsupported token of each line.      *)
(***************************************************************************)
Thm_C4 ==
    Validated /\ ~Blank =>
        /\ \A np \in TokenPlaces :
              Cardinality(UnsupportedAt(np[1], np[2])) =
                  IF Rejected(TokensOf(np[1])[np[2]]) THEN 1 ELSE 0
        /\ Cardinality(UnsupportedErrors) =
              Cardinality({np \in TokenPlaces : Rejected(TokensOf(np[1])[np[2]])})
        /\ Len(InputLines) < 2 =>
              ErrorsSaying("Input must contain a title and at least one line of notes") # {}
        /\ Len(InputLines) > config.maxLines => TooManyLinesReported
        /\ \A n \in NoteLineNumbers :
              /\ Len(TokensOf(n)) > config.maxNotesPerLine => TooManyNotesReportedOn(n)
              /\ InputLines[n] = <<>> =>
                    \E i \in WarningIndexes :
                        /\ result.warnings[i].type = EMPTY_LINE
                        /\ result.warnings[i].line = n
        /\ \A np \in TokenPlaces :
              SpellsB(TokensOf(np[1])[np[2]]) /\ config.autoConvertB =>
                  ConversionsAt(np[1], np[2]) # {}

\* a result with the line-count error and unsupported notes on two lines
Wit_C4 ==
    /\ Validated /\ ~Blank
    /\ TooManyLinesReported
    /\ \E i, j \in UnsupportedErrors : result.errors[i].line # result.errors[j].line

(***************************************************************************)
(* C5: every UnsupportedNote error carries the 1-based number of the raw   *)
(* line (the title is line 1, blank lines count) and the 1-based index of  *)
(* the offending token among the tokens of that line; 'Test\nF G X A Y'    *)
(* gives exactly two such errors, at line 2 position 3 and line 2 position *)
(* 5, and no other error when the line is within maxNotesPerLine.          *)
(***************************************************************************)
Thm_C5 ==
    Validated =>
        /\ \A i \in UnsupportedErrors :
              LET e == result.errors[i]
              IN  /\ e.line \in NoteLineNumbers
                  /\ e.position \in 1..Len(TokensOf(e.line))
                  /\ Rejected(TokensOf(e.line)[e.position])
                  /\ e.message.args = <<TokensOf(e.line)[e.position], e.line, e.position>>
        /\ input = ExPositions =>
              /\ Cardinality(UnsupportedErrors) = 2
              /\ Cardinality(UnsupportedAt(2, 3)) = 1
              /\ Cardinality(UnsupportedAt(2, 5)) = 1
              /\ config.maxNotesPerLine >= 5 => Len(result.errors) = 2

\* an unsupported second token on line 3, after a blank line 2
Wit_C5 ==
    /\ Validated
    /\ Len(InputLines) >= 3
    /\ InputLines[2] = <<>>
    /\ UnsupportedAt(3, 2) # {}

(***************************************************************************)
(* C6: a token of a note line that is 'B' in either case gets exactly one  *)
(* diagnostic.  With autoConvertB on: one NoteConversion warning at its    *)
(* line and 1-based position, no UnsupportedNote error, and the note       *)
(* becomes Bb.  With autoConvertB off: one UnsupportedNote error that      *)
(* suggests 'Use Bb instead of B' followed by the supported notes, and no  *)
(* conversion warning.                                                     *)
(***************************************************************************)
Thm_C6 ==
    Validated /\ ~Blank =>
        \A np \in TokenPlaces :
            LET n == np[1]
                p == np[2]
            IN  SpellsB(TokensOf(n)[p]) =>
                    /\ Cardinality(ErrorsAt(n, p)) + Cardinality(WarningsAt(n, p)) = 1
                    /\ IF config.autoConvertB
                       THEN /\ Cardinality(ConversionsAt(n, p)) = 1
                            /\ UnsupportedAt(n, p) = {}
                            /\ parseNotesFromLine(InputLines[n], config)[p] = <<"B", "b">>
                       ELSE /\ ConversionsAt(n, p) = {}
                            /\ Cardinality(UnsupportedAt(n, p)) = 1
                            /\ \A i \in UnsupportedAt(n, p) :
                                  /\ Len(result.errors[i].suggestions) = 8
                                  /\ result.errors[i].suggestions[1] =
                                        "Use Bb instead of B for 4-hole ocarinas"
                                  /\ \A k \in 1..7 :
                                        result.errors[i].suggestions[k + 1] =
                                            SUPPORTED_NOTES[k]

\* a lower-case b converted with a warning at its position
Wit_C6 ==
    /\ Validated /\ config.autoConvertB
    /\ \E np \in TokenPlaces :
          TokensOf(np[1])[np[2]] = <<"b">> /\ ConversionsAt(np[1], np[2]) # {}

(***************************************************************************)
(* C7: the warning pass and the parsing pass split every line into the     *)
(* same tokens: as many tokens are examined for warnings as notes are      *)
(* parsed from the line, and for every NoteConversion warning at line n,   *)
(* position p, the p-th note parsed from raw line n is the Bb made of      *)
(* that B.                                                                 *)
(***************************************************************************)
Thm_C7 ==
    Validated /\ ~Blank =>
        /\ \A n \in NoteLineNumbers :
              Len(rawNotesOfValidate(InputLines[n])) =
                  Len(parseNotesFromLine(InputLines[n], config))
        /\ \A i \in WarningIndexes :
              LET w == result.warnings[i]
              IN  w.type = NOTE_CONVERSION =>
                    LET parsed == parseNotesFromLine(InputLines[w.line], config)
                    IN  /\ w.position \in 1..Len(parsed)
                        /\ parsed[w.position] = <<"B", "b">>
                        /\ SpellsB(rawNotesOfParse(InputLines[w.line])[w.position])

\* a conversion warning for a later token of a line that uses commas
Wit_C7 ==
    /\ Validated
    /\ \E i \in WarningIndexes :
          /\ result.warnings[i].type = NOTE_CONVERSION
          /\ result.warnings[i].position >= 2
          /\ \E k \in 1..Len(InputLines[result.warnings[i].line]) :
                InputLines[result.warnings[i].line][k] = ","

(***************************************************************************)
(* C8: for text that is empty or white space only, over one line or        *)
(* several, validateInput answers invalid with exactly one EmptyInput      *)
(* error that has no line and no position, no other error and no warning.  *)
(***************************************************************************)
Thm_C8 ==
    Validated /\ Blank =>
        /\ result.isValid = FALSE
        /\ Len(result.errors) = 1
        /\ result.errors[1].type = EMPTY_INPUT
        /\ "line" \notin DOMAIN result.errors[1]
        /\ "position" \notin DOMAIN result.errors[1]
        /\ Len(result.warnings) = 0

\* white space only, over three lines or more
Wit_C8 ==
    /\ Validated /\ Blank
    /\ Len(InputLines) >= 3
    /\ Len(result.errors) = 1

(***************************************************************************)
(* C9 as stated: validateInput reports 'Too many lines' exactly when the   *)
(* text has more than maxLines lines (title and blank lines included), and *)
(* 'Too many notes on line' n exactly when line n has more than            *)
(* maxNotesPerLine tokens.                                                 *)
(***************************************************************************)
Orig_C9 == Validated => LimitsReportedExactly

(***************************************************************************)
(* C9 amended: the same, for text that is not empty or white space only    *)
(* (such text gets the EmptyInput error alone), the lines checked for      *)
(* their tokens being those after the title.  Text of exactly maxLines     *)
(* lines and lines of exactly maxNotesPerLine tokens are not rejected.     *)
(***************************************************************************)
Thm_C9 == Validated /\ ~Blank => LimitsReportedExactly

\* 101 lines under the default limit of 100, reported
Wit_C9 ==
    /\ Validated /\ ~Blank
    /\ config = DEFAULT_CONFIG
    /\ Len(InputLines) = 101
    /\ TooManyLinesReported

(***************************************************************************)
(* C10: the title of a returned Song is line 1 without a leading 'title:', *)
(* 'song:' or 'name:' (in any case) and the white space after it, trimmed, *)
(* and it is never empty: an empty result becomes 'Untitled Song'.         *)
(* 'Song: Foo\nF' gives 'Foo', '\nF' gives 'Untitled Song'.                *)
(***************************************************************************)
Keywords == { <<"t", "i", "t", "l", "e">>, <<"s", "o", "n", "g">>, <<"n", "a", "m", "e">> }
StartsWithKeyword(l, w) ==
    Len(l) > Len(w) /\ toLowerCase(SubSeq(l, 1, Len(w))) = w /\ l[Len(w) + 1] = ":"
\* the first k characters of l are the prefix to remove
PrefixEndsAt(l, k) ==
    \/ k = 0 /\ \A w \in Keywords : ~StartsWithKeyword(l, w)
    \/ \E w \in Keywords :
          /\ StartsWithKeyword(l, w)
          /\ k \in (Len(w) + 1)..Len(l)
          /\ \A j \in (Len(w) + 2)..k : l[j] \in WhiteSpace
          /\ k = Len(l) \/ l[k + 1] \notin WhiteSpace
OrUntitled(t) ==
    IF t = <<>>
    THEN <<"U", "n", "t", "i", "t", "l", "e", "d", " ", "S", "o", "n", "g">>
    ELSE t

Thm_C10 ==
    Parsed /\ result.ok =>
        LET l == InputLines[1]
            title == result.song.title
        IN  /\ title # <<>>
            /\ \E k \in 0..Len(l) :
                  /\ PrefixEndsAt(l, k)
                  /\ title = OrUntitled(trim(SubSeq(l, k + 1, Len(l))))
            /\ input = ExSongFoo => title = <<"F", "o", "o">>
            /\ input = <<"\n", "F">> => title = OrUntitled(<<>>)

\* 'Song: Foo' stripped to 'Foo'
Wit_C10 == Parsed /\ result.ok /\ input = ExSongFoo /\ result.song.title = <<"F", "o", "o">>

(***************************************************************************)
(* C11: the lines of a returned Song are, in input order, the normalized   *)
(* tokens of each line after the title that holds a token: blank lines are *)
(* skipped and no empty array appears.  noteCount is the number of notes   *)
(* over all lines and originalInput is the raw text unchanged.             *)
(* 'Title\nF G A' gives the lines [[F, G, A]] and the title 'Title'.       *)
(***************************************************************************)
\* the canonical name a token accepted by the parser stands for
CanonicalOf(tok) ==
    IF SpellsB(tok) THEN <<"B", "b">>
    ELSE CHOOSE c \in CanonicalNotes : toLowerCase(c) = toLowerCase(tok)
\* the numbers of the raw lines after the title that hold a token, ascending
TokenLines ==
    SelectSeq([k \in 1..(Len(InputLines) - 1) |-> k + 1],
              LAMBDA n : Len(TokensOf(n)) > 0)
NotePlaces(lines) == UNION {{<<l, k>> : k \in 1..Len(lines[l])} : l \in 1..Len(lines)}

Thm_C11 ==
    Parsed /\ result.ok =>
        LET lines == result.song.lines
        IN  /\ Len(lines) = Len(TokenLines)
            /\ \A l \in 1..Len(lines) :
                  /\ Len(lines[l]) = Len(TokensOf(TokenLines[l]))
                  /\ Len(lines[l]) > 0
                  /\ \A k \in 1..Len(lines[l]) :
                        lines[l][k] = CanonicalOf(TokensOf(TokenLines[l])[k])
            /\ result.song.metadata.noteCount = Cardinality(NotePlaces(lines))
            /\ result.song.metadata.originalInput = input
            /\ input = ExTitleFGA =>
                  /\ lines = << << <<"F">>, <<"G">>, <<"A">> >> >>
                  /\ result.song.title = <<"T", "i", "t", "l", "e">>

\* a Song of three lines parsed from text with blank lines between them
Wit_C11 ==
    /\ Parsed /\ result.ok
    /\ Len(result.song.lines) = 3
    /\ \E n \in NoteLineNumbers : n < Len(InputLines) /\ InputLines[n] = <<>>
    /\ result.song.metadata.noteCount = 9

(***************************************************************************)
(* C12: a run of spaces, commas, pipes or hyphens separates notes in the   *)
(* same way whatever it is made of: a note line gives the same tokens, the *)
(* same notes and the same diagnostics as the line with every such run     *)
(* replaced by one space, hence as every line that differs from it only in *)
(* these runs.  'F,G|A-Bb' and 'F G A Bb' both give [F, G, A, Bb] when     *)
(* four notes are within maxNotesPerLine.                                  *)
(***************************************************************************)
SeparatorChars == {" ", ",", "|", "-"}
\* the maximal runs of characters of l that are not separator characters
Pieces(l) ==
    LET starts == SelectSeq(Indexes(l),
                      LAMBDA i : l[i] \notin SeparatorChars
                                 /\ (i = 1 \/ l[i - 1] \in SeparatorChars))
        ends == SelectSeq(Indexes(l),
                      LAMBDA i : l[i] \notin SeparatorChars
                                 /\ (i = Len(l) \/ l[i + 1] \in SeparatorChars))
    IN  [k \in 1..Len(starts) |-> SubSeq(l, starts[k], ends[k])]
\* l with one space for every separator run between two pieces
SpaceSeparated(l) ==
    LET ps == Pieces(l)
    IN  Flat([k \in 1..Len(ps) |-> IF k = 1 THEN ps[k] ELSE <<" ">> \o ps[k]])
\* what a diagnostic says, its line number apart
Said(d) ==
    [type |-> d.type,
     text |-> d.message.text,
     position |-> IF "position" \in DOMAIN d THEN d.position ELSE 0,
     suggestions |-> IF "suggestions" \in DOMAIN d THEN d.suggestions ELSE <<>>]
SaidOn(ds, n) ==
    LET own == SelectSeq(ds, LAMBDA d : "line" \in DOMAIN d /\ d.line = n)
    IN  [i \in 1..Len(own) |-> Said(own[i])]
FGABb == << <<"F">>, <<"G">>, <<"A">>, <<"B", "b">> >>

Thm_C12 ==
    /\ Validated /\ ~Blank =>
          \A n \in NoteLineNumbers :
              LET line == InputLines[n]
                  plain == SpaceSeparated(line)
              IN  Len(Pieces(line)) > 0 =>
                    /\ rawNotesOfValidate(line) = rawNotesOfValidate(plain)
                    /\ rawNotesOfParse(line) = rawNotesOfParse(plain)
                    /\ parseNotesFromLine(line, config) = parseNotesFromLine(plain, config)
                    /\ validateNoteLine(line, n, config) = validateNoteLine(plain, n, config)
                    /\ \A m \in NoteLineNumbers :
                          Pieces(InputLines[m]) = Pieces(line) =>
                              /\ SaidOn(result.errors, m) = SaidOn(result.errors, n)
                              /\ SaidOn(result.warnings, m) = SaidOn(result.warnings, n)
    /\ Parsed /\ input \in {ExSeparators, ExPlainSeparators} /\ config.maxNotesPerLine >= 4 =>
          result.ok /\ result.song.lines = <<FGABb>>

\* two lines of the same notes, one with pipes and one with hyphens, in a
\* text that has an error on a later line
Wit_C12 ==
    /\ Validated /\ ~Blank
    /\ \E n, m \in NoteLineNumbers :
          /\ Pieces(InputLines[m]) = Pieces(InputLines[n])
          /\ Len(Pieces(InputLines[n])) = 3
          /\ \E i \in 1..Len(InputLines[n]) : InputLines[n][i] = "|"
          /\ \E i \in 1..Len(InputLines[m]) : InputLines[m][i] = "-"
    /\ \E n \in NoteLineNumbers : SaidOn(result.errors, n) # <<>>

(***************************************************************************)
(* The fingering engine given arrays of tokens: every array of at most     *)
(* MaxNotes of the tokens below.                                           *)
(***************************************************************************)
Tokens ==
    { <<"B">>, <<"b">>, <<" ", "B", " ">>, <<"D", "b">>, <<"E", "b">>, <<"G", "b">>,
      <<"A", "b">>, <<"d", "b">>, <<"X">>, <<"F">>, <<"B", "b">>, <<>>,
      <<"c", "o", "n", "s", "t", "r", "u", "c", "t", "o", "r">> }

NoteArrays == UNION {[1..k -> Tokens] : k \in 0..MaxNotes}

EngineInit ==
    /\ NoParser
    /\ NoCanvas
    /\ call = "none"
    /\ result = <<>>
    /\ args \in {[notes |-> notes] : notes \in NoteArrays}

ValidateNotes ==
    /\ call = "none"
    /\ call' = "validateNotes"
    /\ result' = validateNotes(args.notes)
    /\ UNCHANGED <<avars, input, config, rvars>>

EngineNext == ValidateNotes

EngineSpec == EngineInit /\ [][EngineNext]_vars

(***************************************************************************)
(* The parser's convertNotes given arrays of tokens: the arrays above and  *)
(* those of its tests, under each configuration.                           *)
(***************************************************************************)
ExFBG == << <<"F">>, <<"B">>, <<"G">> >>
ExBFBG == << <<"B">>, <<"F">>, <<"B">>, <<"G">> >>
ExLowerBFG == << <<"b">>, <<"F">>, <<"G">> >>

ConvertArrays == NoteArrays \cup {ExFBG, ExBFBG, ExLowerBFG, SUPPORTED_NOTES}

ConvertInit ==
    /\ input = <<>>
    /\ config \in Configs
    /\ NoCanvas
    /\ call = "none"
    /\ result = <<>>
    /\ args \in {[notes |-> notes] : notes \in ConvertArrays}

ConvertNotes ==
    /\ call = "none"
    /\ call' = "convertNotes"
    /\ result' = convertNotes(args.notes, config)
    /\ UNCHANGED <<avars, input, config, rvars>>

ConvertNext == ConvertNotes

ConvertSpec == ConvertInit /\ [][ConvertNext]_vars

(***************************************************************************)
(* File names: the renderer's exportToPNG and the export manager's         *)
(* generateFilename given a title at some instant.  The titles are every   *)
(* short string over TitleAlphabet and titles around the length limit.     *)
(***************************************************************************)
TitleAlphabet == {"M", "y", " ", "-", "!", "_"}

ExMySong == <<"M", "y", " ", "S", "o", "n", "g", "!">>
ExSpecialOnly == <<"!", "@", "#", "$">>
\* the limit of 50 falls inside a word, and right after a hyphen
ExLongWord == Repeat(<<"a", "B">>, 30)
ExLongHyphen == Repeat(<<"a">>, 49) \o <<" ", "b", "c">>

Titles ==
    UNION {[1..k -> TitleAlphabet] : k \in 0..MaxLen}
        \cup {ExMySong, ExSpecialOnly, ExLongWord, ExLongHyphen, UntitledSong}

Instants ==
    {[year |-> 2024, month |-> 1, day |-> 15, hours |-> 10, minutes |-> 30,
      seconds |-> 45, milliseconds |-> 123],
     [year |-> 1999, month |-> 12, day |-> 31, hours |-> 23, minutes |-> 59,
      seconds |-> 59, milliseconds |-> 999]}

FilenameInit ==
    /\ input \in Titles
    /\ config = DEFAULT_CONFIG
    /\ NoCanvas
    /\ call = "none"
    /\ result = <<>>
    /\ args \in {[now |-> d, asSong |-> b] : d \in Instants, b \in BOOLEAN}

\* exportToPNG(songTitle) without a custom file name; the result is the
\* download attribute of the link
ExportToPNG ==
    /\ call = "none"
    /\ ~args.asSong
    /\ call' = "exportToPNG"
    /\ LET songTitle == IF Len(input) = 0 THEN UntitledSong ELSE input
       IN  result' = [title |-> songTitle, filename |-> generateFilename(songTitle, args.now)]
    /\ UNCHANGED <<avars, input, config, rvars>>

\* ExportManager.generateFilename(title) and generateFilename(song)
GenerateFilename ==
    /\ call = "none"
    /\ call' = "generateFilename"
    /\ LET songTitle == IF args.asSong THEN [title |-> input, lines |-> << <<"F">> >>]
                        ELSE [string |-> input]
       IN  result' = [title |-> input,
                      filename |-> ExportManager_generateFilename(
                                       songTitle, Png, DEFAULT_EXPORT_CONFIG, args.now)]
    /\ UNCHANGED <<avars, input, config, rvars>>

FilenameNext == ExportToPNG \/ GenerateFilename

FilenameSpec == FilenameInit /\ [][FilenameNext]_vars

(***************************************************************************)
(* The state manager on its own: constructed with or without an initial    *)
(* state, then given any of its operations in any order.  The songs and    *)
(* validation results are those the parser gives for the texts below.      *)
(***************************************************************************)
TxSong == <<"T", "\n", "F", " ", "G">>
TxOther == <<"T", "\n", "E">>
\* valid, with a NoteConversion warning
TxWarn == <<"T", "\n", "B">>
TxInvalid == <<"T", "\n", "X">>
TxBlank == <<" ">>

songOf(text) == parseSong(text, DEFAULT_CONFIG).song

ManagedSongs == {songOf(TxSong), songOf(TxWarn)}
ManagedResults ==
    {validateInput(TxSong, DEFAULT_CONFIG), validateInput(TxWarn, DEFAULT_CONFIG),
     validateInput(TxInvalid, DEFAULT_CONFIG), InvalidEmptyResult}
ManagedTexts == {TxSong, TxInvalid}
ManagedError == [type |-> PARSING_ERROR, message |-> [text |-> "error", args |-> <<>>]]
ManagedSizes == {[width |-> 400, height |-> 300], [width |-> 800, height |-> 600]}

\* the song of TxSong
ExSong ==
    [title |-> <<"T">>,
     lines |-> << << <<"F">>, <<"G">> >> >>,
     metadata |-> [originalInput |-> TxSong, noteCount |-> 2]]

\* the initial states given to the constructor, consistent or not
InitialStates ==
    {[currentSong |-> ExSong],
     [currentSong |-> ExSong, validationResult |-> InvalidEmptyResult],
     [isLoading |-> TRUE]}

\* the partial states given to updateState
StateUpdates ==
    {[currentSong |-> song] : song \in ManagedSongs}
        \cup {[validationResult |-> v] : v \in ManagedResults}
        \cup {[currentSong |-> song, validationResult |-> v] :
                song \in ManagedSongs, v \in ManagedResults}

StateInit ==
    /\ NoParser
    /\ args = <<>>
    /\ dpr = 1
    /\ callerConfig = <<>>
    /\ chartConfig = <<>>
    /\ aliased = FALSE
    /\ canvas = <<>>
    /\ ctx = <<>>
    /\ app = <<>>
    /\ cache = <<>>
    /\ call = "none"
    /\ result = <<>>
    /\ \E initialState \in InitialStates, given \in BOOLEAN, isMobile \in BOOLEAN :
          sm = newStateManager(IF given THEN initialState ELSE <<>>, isMobile)

\* a call of the state manager: its name and the state it leaves
Managed(name, given, after) ==
    /\ call' = name
    /\ args' = given
    /\ sm' = after
    /\ result' = <<>>
    /\ UNCHANGED <<app, cache, input, config, dpr, callerConfig, chartConfig, aliased,
                   canvas, ctx>>

UpdateState ==
    \E update \in StateUpdates :
        Managed("updateState", [update |-> update], updateState(sm, update))

SetSong ==
    \E song \in ManagedSongs \cup {null} :
        Managed("setSong", [song |-> song], setSong(sm, song))

SetInputText ==
    \E text \in ManagedTexts :
        Managed("setInputText", [text |-> text], setInputText(sm, text))

SetValidationResult ==
    \E v \in ManagedResults :
        Managed("setValidationResult", [result |-> v], setValidationResult(sm, v))

AddError ==
    /\ Len(sm.appState.errors) < MaxErrors
    /\ Managed("addError", [error |-> ManagedError], addError(sm, ManagedError))

ClearErrors == Managed("clearErrors", <<>>, clearErrors(sm))

SetLoading == \E b \in BOOLEAN : Managed("setLoading", [isLoading |-> b], setLoading(sm, b))

SetExporting == \E b \in BOOLEAN : Managed("setExporting", [isExporting |-> b], setExporting(sm, b))

StateUpdateChartConfig ==
    \E size \in ManagedSizes :
        LET cfg == [canvasWidth |-> size.width, canvasHeight |-> size.height]
        IN  Managed("updateChartConfig", [config |-> cfg],
                    StateManager_updateChartConfig(sm, cfg))

UpdateUIState ==
    \/ \E b \in BOOLEAN : Managed("updateUIState", <<>>, updateUIState(sm, [isMobile |-> b]))
    \/ \E size \in ManagedSizes :
          Managed("updateUIState", [canvasSize |-> size],
                  updateUIState(sm, [canvasSize |-> size]))

Reset == \E isMobile \in BOOLEAN : Managed("reset", <<>>, reset(sm, isMobile))

CanExport ==
    /\ call' = "canExport"
    /\ args' = <<>>
    /\ result' = StateManager_canExport(sm)
    /\ UNCHANGED <<sm, app, cache, input, config, dpr, callerConfig, chartConfig, aliased,
                   canvas, ctx>>

StateNext ==
    \/ UpdateState
    \/ SetSong
    \/ SetInputText
    \/ SetValidationResult
    \/ AddError
    \/ ClearErrors
    \/ SetLoading
    \/ SetExporting
    \/ StateUpdateChartConfig
    \/ UpdateUIState
    \/ Reset
    \/ CanExport

StateSpec == StateInit /\ [][StateNext]_vars

(***************************************************************************)
(* The application in use: the user types (the debounced processing runs   *)
(* later), texts are set by loading a file or an example, the window is    *)
(* resized, the chart configuration is updated and an export is asked for, *)
(* in any order.                                                           *)
(***************************************************************************)
ExSeparatorsOnly == <<"T", "\n", "-", ",">>

AppTexts == {TxSong, TxWarn, TxInvalid, TxBlank, ExSeparatorsOnly, <<>>}

\* what the parser of the text input returns for each text, trimmed:
\* this.parser.validateInput(text) and this.parser.parseSong(text)
\* (the song where the text validates)
ParsedTexts ==
    {LET validationResult == validateInput(trim(text), DEFAULT_CONFIG)
     IN  [text |-> text,
          validationResult |-> validationResult,
          song |-> IF validationResult.isValid
                   THEN parseSong(trim(text), DEFAULT_CONFIG).song
                   ELSE null] : text \in AppTexts}

\* the widths of the container of the canvas, 40 pixels of padding included
ContainerWidths == {440, 840}

AppConfigUpdates == {[holeRadius |-> 10]}

World ==
    [app |-> app, sm |-> sm, callerConfig |-> callerConfig, chartConfig |-> chartConfig,
     aliased |-> aliased, canvas |-> canvas, ctx |-> ctx]

\* new UIController(), whose initialize() constructs RealTimeApp: the preview
\* controller constructs its renderer with its own chartConfig, sets the canvas
\* up and shows the empty state
newApp(isMobile, d) ==
    LET own == DEFAULT_CHART_CONFIG
    IN  showState(setupCanvas(
            [app |-> [currentText |-> <<>>, pending |-> FALSE, currentSong |-> null,
                      currentValidation |-> null, previewSong |-> null],
             sm |-> newStateManager(<<>>, isMobile),
             callerConfig |-> own,
             chartConfig |-> own,
             aliased |-> TRUE,
             canvas |-> setupHighDPICanvas(own, d).canvas,
             ctx |-> setupHighDPICanvas(own, d).ctx]))

AppInit ==
    /\ NoParser
    /\ cache = <<>>
    /\ call = "none"
    /\ args = <<>>
    /\ result = <<>>
    /\ \E r \in DevicePixelRatios : dpr = dprOf(r)
    /\ \E isMobile \in BOOLEAN :
          LET w == newApp(isMobile, dpr)
          IN  /\ app = w.app
              /\ sm = w.sm
              /\ callerConfig = w.callerConfig
              /\ chartConfig = w.chartConfig
              /\ aliased = w.aliased
              /\ canvas = w.canvas
              /\ ctx = w.ctx

\* an event of the application: its name, what it was given, the state it
\* leaves and what it returns
Handled(name, given, w, returned) ==
    /\ call' = name
    /\ args' = given
    /\ result' = returned
    /\ app' = w.app
    /\ sm' = w.sm
    /\ callerConfig' = w.callerConfig
    /\ chartConfig' = w.chartConfig
    /\ aliased' = w.aliased
    /\ canvas' = w.canvas
    /\ ctx' = w.ctx
    /\ UNCHANGED <<cache, input, config, dpr>>

\* the user edits the text area
HandleInput ==
    \E newText \in AppTexts :
        /\ newText # app.currentText
        /\ Handled("handleInput", [text |-> newText], handleInput(World, newText), <<>>)

\* the debounce delay passes
ProcessInput ==
    \E parsed \in ParsedTexts :
        /\ app.pending
        /\ parsed.text = app.currentText
        /\ Handled("processInput", <<>>,
                   [processInput(World, parsed.validationResult, parsed.song, dpr)
                       EXCEPT !.app.pending = FALSE],
                   <<>>)

\* a file or an example is loaded
SetText ==
    \E parsed \in ParsedTexts :
        Handled("setText", [text |-> parsed.text],
                setText(World, parsed.text, parsed.validationResult, parsed.song, dpr),
                <<>>)

\* the window is resized and the delay of the resize handler passes
Resize ==
    \E containerWidth \in ContainerWidths :
        Handled("resize", [containerWidth |-> containerWidth],
                PreviewController_resize(World, containerWidth, dpr), <<>>)

AppUpdateChartConfig ==
    \E cfg \in AppConfigUpdates :
        Handled("updateChartConfig", [config |-> cfg],
                UIController_updateChartConfig(World, cfg, dpr), <<>>)

\* RealTimeApp.exportChart(), getExportDataURL() or exportAsBlob()
ExportChart == Handled("exportChart", <<>>, World, exportGuard(World))

AppNext ==
    \/ HandleInput
    \/ ProcessInput
    \/ SetText
    \/ Resize
    \/ AppUpdateChartConfig
    \/ ExportChart

AppSpec == AppInit /\ [][AppNext]_vars

(***************************************************************************)
(* Vocabulary of the properties of the renderer.                           *)
(***************************************************************************)
LaidOut == call = "calculateLayout"
Rendered == call = "renderChart"
Queried == call = "hasContent"

\* the note count of the longest line, 1 for no lines
LongestOf(lines) ==
    IF lines = <<>> THEN 1
    ELSE CHOOSE m \in {Len(lines[l]) : l \in 1..Len(lines)} :
            \A l \in 1..Len(lines) : Len(lines[l]) <= m
AtLeastOne(n) == IF n < 1 THEN 1 ELSE n
\* a song of the same shape with another title, other notes and no metadata
Reshaped(song) ==
    [title |-> <<"Z">>,
     lines |-> [l \in 1..Len(song.lines) |-> [k \in 1..Len(song.lines[l]) |-> <<"E">>]]]
\* a configuration of the same hole radius and spacing, all else changed
Recoloured(cfg) ==
    [canvasWidth |-> cfg.canvasWidth + 1,
     canvasHeight |-> cfg.canvasHeight + 1,
     holeRadius |-> cfg.holeRadius,
     spacing |-> cfg.spacing,
     colors |-> [background |-> Black, holeFilled |-> White,
                 holeEmpty |-> Black, text |-> White]]

(***************************************************************************)
(* C13: calculateLayout returns patternWidth = patternHeight =             *)
(* 4*holeRadius + spacing, lineHeight = patternHeight + 3*spacing, the     *)
(* four margins 2*spacing, totalWidth = m*(patternWidth + 2*spacing) +     *)
(* 4*spacing for m the note count of the longest line (1 for no lines) and *)
(* totalHeight = max(numLines, 1)*lineHeight + 6*spacing, and nothing      *)
(* else; the title, the notes, the canvas size and the colours do not      *)
(* change what it returns.                                                 *)
(***************************************************************************)
Thm_C13 ==
    LaidOut =>
        LET r == chartConfig.holeRadius
            s == chartConfig.spacing
            m == LongestOf(args.song.lines)
            n == Len(args.song.lines)
        IN  /\ DOMAIN result = {"totalWidth", "totalHeight", "lineHeight",
                                "patternWidth", "patternHeight", "margins"}
            /\ result.patternWidth = 4 * r + s
            /\ result.patternHeight = 4 * r + s
            /\ result.lineHeight = result.patternHeight + 3 * s
            /\ result.margins = [top |-> 2 * s, right |-> 2 * s,
                                 bottom |-> 2 * s, left |-> 2 * s]
            /\ result.totalWidth = m * (result.patternWidth + 2 * s) + 4 * s
            /\ result.totalHeight = AtLeastOne(n) * result.lineHeight + 6 * s
            /\ calculateLayout(Reshaped(args.song), Recoloured(chartConfig)) = result

\* the layout of a song without lines, as wide as one note
Wit_C13 ==
    /\ LaidOut
    /\ args.song.lines = <<>>
    /\ chartConfig.spacing = 10
    /\ result.totalWidth = (4 * chartConfig.holeRadius + 30) + 40

\* the configuration with a larger hole radius, all else the same
WithRadius(cfg, r) == [cfg EXCEPT !.holeRadius = r]
LargerRadii == {chartConfig.holeRadius + 1, 2 * chartConfig.holeRadius}
\* the songs of as many lines, each line longer than that of song
LongerLined(song) ==
    {t \in Songs :
        /\ Len(t.lines) = Len(song.lines)
        /\ \A l \in 1..Len(song.lines) : Len(t.lines[l]) > Len(song.lines[l])}
GrowsWithRadius ==
    \A r \in LargerRadii :
        LET larger == calculateLayout(args.song, WithRadius(chartConfig, r))
        IN  /\ larger.totalWidth > result.totalWidth
            /\ larger.totalHeight > result.totalHeight

(***************************************************************************)
(* C14 as stated: all else fixed, totalWidth and totalHeight both grow     *)
(* strictly with holeRadius, and both grow strictly with the note count    *)
(* per line.                                                               *)
(***************************************************************************)
Orig_C14 ==
    LaidOut =>
        /\ GrowsWithRadius
        /\ \A t \in LongerLined(args.song) :
              /\ calculateLayout(t, chartConfig).totalWidth > result.totalWidth
              /\ calculateLayout(t, chartConfig).totalHeight > result.totalHeight

(***************************************************************************)
(* C14 amended: all else fixed, totalWidth and totalHeight both grow       *)
(* strictly with holeRadius; totalWidth grows strictly with the note count *)
(* of the longest line, and totalHeight does not change with the note      *)
(* counts of the lines: it depends on the number of lines only.            *)
(***************************************************************************)
Thm_C14 ==
    LaidOut =>
        /\ GrowsWithRadius
        /\ \A t \in Songs :
              Len(t.lines) = Len(args.song.lines) =>
                  /\ LongestOf(t.lines) > LongestOf(args.song.lines) =>
                        calculateLayout(t, chartConfig).totalWidth > result.totalWidth
                  /\ calculateLayout(t, chartConfig).totalHeight = result.totalHeight

\* a song of two lines laid out, and one of two longer lines that is wider
\* and as high
Wit_C14 ==
    /\ LaidOut
    /\ Len(args.song.lines) = 2
    /\ \E t \in LongerLined(args.song) :
          /\ calculateLayout(t, chartConfig).totalWidth > result.totalWidth
          /\ calculateLayout(t, chartConfig).totalHeight = result.totalHeight

\* the layout renderChart computed: the hole radius and the spacing are the
\* same before and after it
LayoutRendered == calculateLayout(args.song, chartConfig)
\* the surface is the logical size of cfg in device pixels, shown at that size
SurfaceFits(cfg) ==
    /\ canvas.width = cfg.canvasWidth * dpr
    /\ canvas.height = cfg.canvasHeight * dpr
    /\ canvas.style.width = [px |-> cfg.canvasWidth]
    /\ canvas.style.height = [px |-> cfg.canvasHeight]
SizedAsLaidOut(cfg) ==
    /\ cfg.canvasWidth = LayoutRendered.totalWidth
    /\ cfg.canvasHeight = LayoutRendered.totalHeight

(***************************************************************************)
(* C15 as stated: after every renderChart the configuration object the     *)
(* caller supplied has canvasWidth = totalWidth and canvasHeight =         *)
(* totalHeight of the layout, and the surface is that size multiplied by   *)
(* devicePixelRatio in device pixels, displayed at that size.              *)
(***************************************************************************)
Orig_C15 == Rendered => SizedAsLaidOut(callerConfig) /\ SurfaceFits(callerConfig)

(***************************************************************************)
(* C15 amended: after every renderChart the configuration the renderer     *)
(* holds has canvasWidth = totalWidth and canvasHeight = totalHeight of    *)
(* the layout, and the surface is that size multiplied by devicePixelRatio *)
(* in device pixels, displayed at that size.  The object given to the      *)
(* constructor is that configuration, rewritten in place, until            *)
(* updateConfig replaces it by a copy.                                     *)
(***************************************************************************)
Thm_C15 ==
    Rendered =>
        /\ SizedAsLaidOut(chartConfig)
        /\ SurfaceFits(chartConfig)
        /\ aliased => callerConfig = chartConfig

\* a render at a device pixel ratio of 2 that rewrote the size in the object
\* of the caller
Wit_C15 ==
    /\ Rendered
    /\ aliased
    /\ dpr = 2
    /\ callerConfig.canvasWidth = LayoutRendered.totalWidth
    /\ callerConfig.canvasWidth # 800
    /\ canvas.width = 2 * callerConfig.canvasWidth

\* a step that is a call of renderChart
RenderStep == call' = "renderChart"
\* the layout of the song being rendered is the size the canvas already has
SameSizeStep ==
    /\ calculateLayout(args'.song, chartConfig).totalWidth = chartConfig.canvasWidth
    /\ calculateLayout(args'.song, chartConfig).totalHeight = chartConfig.canvasHeight

(***************************************************************************)
(* C16: renderChart runs the DPI set-up of the surface, which clears it,   *)
(* only when the size of the layout it computed differs from the current   *)
(* logical size of the canvas; when the size is the same no set-up is run  *)
(* and the dimensions of the surface and the scale of the context stay as  *)
(* they are.                                                               *)
(***************************************************************************)
Orig_C16 ==
    [][RenderStep /\ SameSizeStep =>
          /\ result'.setups = 0
          /\ canvas' = canvas
          /\ ctx'.scale = ctx.scale]_vars

\* the patterns on the surface, in drawing order
PatternMarks == SelectSeq(ctx.marks, LAMBDA m : m.kind = "pattern")
\* the places <<line, index>> of the notes of the song, counted from 1
SongPlaces ==
    UNION {{<<l, k>> : k \in 1..Len(args.song.lines[l])} : l \in 1..Len(args.song.lines)}
NoteAt(pl) == args.song.lines[pl[1]][pl[2]]
Resolved(pl) == NoteAt(pl) \in DOMAIN args.fingeringPatterns
\* where the note at a place belongs, whatever is drawn before it
XOfPlace(pl) ==
    2 * chartConfig.spacing
    + (pl[2] - 1) * (4 * chartConfig.holeRadius + 3 * chartConfig.spacing)
YOfPlace(pl) ==
    4 * chartConfig.spacing
    + (pl[1] - 1) * (4 * chartConfig.holeRadius + 4 * chartConfig.spacing)
DrawnAt(pl) ==
    {i \in 1..Len(PatternMarks) :
        PatternMarks[i].x = XOfPlace(pl) /\ PatternMarks[i].y = YOfPlace(pl)}

(***************************************************************************)
(* C17: renderChart completes whatever the pattern map holds: a note       *)
(* without an entry is skipped, every note with an entry is drawn once,    *)
(* with the pattern of its entry, at the place given by its own line and   *)
(* its own index in the line, so that a skipped note leaves a gap and does *)
(* not shift the notes after it.                                           *)
(***************************************************************************)
Thm_C17 ==
    Rendered =>
        /\ Len(PatternMarks) = Cardinality({pl \in SongPlaces : Resolved(pl)})
        /\ \A pl \in SongPlaces :
              IF Resolved(pl)
              THEN /\ Cardinality(DrawnAt(pl)) = 1
                   /\ \A i \in DrawnAt(pl) :
                         /\ PatternMarks[i].note = args.fingeringPatterns[NoteAt(pl)].note
                         /\ PatternMarks[i].holes = args.fingeringPatterns[NoteAt(pl)].holes
              ELSE DrawnAt(pl) = {}

\* a line whose first note has no entry and whose second note is drawn at
\* the second place
Wit_C17 ==
    /\ Rendered
    /\ \E l \in 1..Len(args.song.lines) :
          /\ Len(args.song.lines[l]) >= 2
          /\ ~Resolved(<<l, 1>>)
          /\ Resolved(<<l, 2>>)
          /\ DrawnAt(<<l, 2>>) # {}
          /\ DrawnAt(<<l, 1>>) = {}

\* a pattern with a covered hole is on the surface
CoveredHoleDrawn ==
    \E i \in 1..Len(ctx.marks) :
        /\ ctx.marks[i].kind = "pattern"
        /\ \E h \in 1..4 : ctx.marks[i].holes[h]
\* the surface is as clear() leaves it: the background and nothing drawn
FreshlyCleared == ctx.fill = chartConfig.colors.background /\ ctx.marks = <<>>

(***************************************************************************)
(* C18: hasContent answers true when renderChart has drawn a covered hole  *)
(* on the surface, and false on the surface that clear() leaves.           *)
(***************************************************************************)
Thm_C18 ==
    /\ Queried /\ CoveredHoleDrawn => result = TRUE
    /\ Queried /\ FreshlyCleared => result = FALSE
    /\ call = "clear" => FreshlyCleared

\* a query of a surface on which a pattern of the song was drawn
Wit_C18 ==
    /\ Queried
    /\ CoveredHoleDrawn
    /\ result = TRUE
    /\ chartConfig.colors.holeFilled = Grey

\* the text is the name c with white space, and nothing else, around it
Surrounds(c) ==
    \E a \in 0..Len(input) :
        /\ a + Len(c) <= Len(input)
        /\ \A i \in 1..Len(c) : input[a + i] = c[i]
        /\ \A i \in 1..a : input[i] \in WhiteSpace
        /\ \A i \in (a + Len(c) + 1)..Len(input) : input[i] \in WhiteSpace

(***************************************************************************)
(* C19: getPattern finds a pattern exactly when its argument, the white    *)
(* space around it apart, is one of the 7 canonical names in that very     *)
(* case, and what it returns then is the entry of that name; 'f', 'bb' and *)
(* the empty string are not found.                                         *)
(***************************************************************************)
Thm_C19 ==
    Looked =>
        /\ result.found <=> \E c \in CanonicalNotes : Surrounds(c)
        /\ \A c \in CanonicalNotes :
              Surrounds(c) => result.pattern = FINGERING_PATTERNS[c]
        /\ input \in {ExLowerF, <<"b", "b">>, <<>>} => ~result.found

\* Bb found with white space before and after it
Wit_C19 ==
    /\ Looked
    /\ result.found
    /\ result.pattern.note = <<"B", "b">>
    /\ Len(input) >= 4
    /\ input[1] \in WhiteSpace
    /\ input[Len(input)] \in WhiteSpace

NotesCalled == call = "validateNotes"
\* the call came back with a ValidationResult
NotesChecked == NotesCalled /\ "errors" \in DOMAIN result
\* the token an error is about, trimmed
TokenOfError(e) == trim(args.notes[e.position + 1])
Accidentals == { <<"D", "b">>, <<"E", "b">>, <<"G", "b">>, <<"A", "b">> }
AdjacentOf(tok) ==
    CASE tok = <<"D", "b">> -> << <<"D">>, <<"C">> >>
      [] tok = <<"E", "b">> -> << <<"E">>, <<"D">> >>
      [] tok = <<"G", "b">> -> << <<"G">>, <<"F">> >>
      [] tok = <<"A", "b">> -> << <<"A">>, <<"G">> >>
AllSeven == << <<"F">>, <<"G">>, <<"A">>, <<"B", "b">>, <<"C">>, <<"D">>, <<"E">> >>
\* the suggestions of the first rule that matches the token
FirstRuleOf(tok) ==
    IF toLowerCase(tok) = <<"b">> THEN << <<"B", "b">> >>
    ELSE IF tok \in Accidentals THEN AdjacentOf(tok)
    ELSE AllSeven

(***************************************************************************)
(* C20: the suggestions of every error of validateNotes are those of the   *)
(* first rule that matches the unsupported token: 'Bb' for a token that is *)
(* 'B' in either case; otherwise the adjacent notes of a common accidental *)
(* (Db: D, C; Eb: E, D; Gb: G, F; Ab: A, G); otherwise the 7 supported     *)
(* names.                                                                  *)
(***************************************************************************)
Orig_C20 ==
    NotesChecked =>
        \A i \in 1..Len(result.errors) :
            result.errors[i].suggestions = FirstRuleOf(TokenOfError(result.errors[i]))

(***************************************************************************)
(* Vocabulary of validateNotes' errors.                                    *)
(***************************************************************************)
\* the 1-based places of the array whose element is not a supported name
UnsupportedPlaces == SelectSeq(Indexes(args.notes),
                               LAMBDA k : trim(args.notes[k]) \notin CanonicalNotes)

(***************************************************************************)
(* C21: validateNotes returns exactly one UnsupportedNote error for every  *)
(* unsupported element of its array, in the order of the array, and the    *)
(* position of the error is the 0-based index of the element; isValid is   *)
(* true exactly if every element is supported, so it is true for the empty *)
(* array.                                                                  *)
(***************************************************************************)
Orig_C21 ==
    NotesCalled =>
        /\ "errors" \in DOMAIN result
        /\ Len(result.errors) = Len(UnsupportedPlaces)
        /\ \A j \in 1..Len(result.errors) :
              /\ result.errors[j].type = UNSUPPORTED_NOTE
              /\ result.errors[j].position = UnsupportedPlaces[j] - 1
        /\ result.isValid <=> (Len(UnsupportedPlaces) = 0)

(***************************************************************************)
(* Vocabulary of convertNotes.                                             *)
(***************************************************************************)
NotesConverted == call = "convertNotes"
\* the token is the letter B in either case
LetterB(tok) == tok = <<"B">> \/ tok = <<"b">>
\* the 1-based places of the array that hold the letter B
BPlaces == {i \in 1..Len(args.notes) : LetterB(args.notes[i])}

(***************************************************************************)
(* C22: convertNotes returns an array as long as its argument in which     *)
(* every token that is 'B' in either case is 'Bb' and every other token is *)
(* the token given at that place, with one NoteConversion warning for      *)
(* every replacement; with autoConvertB disabled it returns the tokens as  *)
(* given and no warning.  convertNotes(['F','B','G']) gives                *)
(* ['F','Bb','G'] and 1 warning.                                           *)
(***************************************************************************)
Thm_C22 ==
    NotesConverted =>
        /\ Len(result.notes) = Len(args.notes)
        /\ config.autoConvertB =>
              /\ \A i \in 1..Len(args.notes) :
                    result.notes[i] = IF i \in BPlaces THEN <<"B", "b">> ELSE args.notes[i]
              /\ Len(result.warnings) = Cardinality(BPlaces)
              /\ \A j \in 1..Len(result.warnings) : result.warnings[j].type = NOTE_CONVERSION
        /\ ~config.autoConvertB =>
              /\ result.notes = args.notes
              /\ result.warnings = <<>>
        /\ (args.notes = ExFBG /\ config.autoConvertB) =>
              /\ result.notes = << <<"F">>, <<"B", "b">>, <<"G">> >>
              /\ Len(result.warnings) = 1

\* the array of the test is converted: one B among other tokens, one warning
Wit_C22 ==
    /\ NotesConverted
    /\ config.autoConvertB
    /\ args.notes = ExFBG
    /\ result.notes = << <<"F">>, <<"B", "b">>, <<"G">> >>
    /\ Len(result.warnings) = 1

(***************************************************************************)
(* Vocabulary of file names.                                               *)
(***************************************************************************)
Named == call \in {"exportToPNG", "generateFilename"}

IsWordChar(c) == c \in WordChars
\* the title without the characters that are neither word characters, white
\* space nor hyphens
Plain(t) == SelectSeq(t, LAMBDA c : IsWordChar(c) \/ c \in WhiteSpace \/ c = "-")
\* the words of a plain title in lower case, joined by single hyphens
Hyphenated(f) ==
    Flat([i \in 1..Len(f) |->
            IF ~IsWordChar(f[i]) THEN <<>>
            ELSE IF i > 1 /\ ~IsWordChar(f[i - 1]) /\ (\E j \in 1..(i - 1) : IsWordChar(f[j]))
                 THEN <<"-", toLowerCaseChar(f[i])>>
                 ELSE <<toLowerCaseChar(f[i])>>])
First50(s) == IF Len(s) > 50 THEN SubSeq(s, 1, 50) ELSE s
SlugOf(t) == First50(Hyphenated(Plain(t)))
SlugOrFallback(t) == IF SlugOf(t) = <<>> THEN OcarinaChart ELSE SlugOf(t)

\* YYYYMMDDHHMMSS: 14 digits
NumericStamp(d) ==
    pad(d.year, 4) \o pad(d.month, 2) \o pad(d.day, 2)
        \o pad(d.hours, 2) \o pad(d.minutes, 2) \o pad(d.seconds, 2)
DotPng == <<".", "p", "n", "g">>

(***************************************************************************)
(* C23: the file name of a title is '<slug>-<timestamp>.png': the slug is  *)
(* the title without the characters that are neither word characters,      *)
(* white space nor hyphens, its runs of white space and hyphens replaced   *)
(* by one hyphen, none of them leading or trailing, in lower case, cut to  *)
(* 50 characters, and 'ocarina-chart' if that is empty; the timestamp is   *)
(* the 14 digits YYYYMMDDHHMMSS of the instant.  'My Song!' gives the slug *)
(* 'my-song'.                                                              *)
(***************************************************************************)
Orig_C23 ==
    Named =>
        /\ result.filename =
              SlugOrFallback(result.title) \o <<"-">> \o NumericStamp(args.now) \o DotPng
        /\ result.title = ExMySong =>
              SubSeq(result.filename, 1, 8) = <<"m", "y", "-", "s", "o", "n", "g", "-">>

(***************************************************************************)
(* Vocabulary of the state manager.                                        *)
(***************************************************************************)
\* the operations that go through updateState
UpdateCalls ==
    {"updateState", "setSong", "setInputText", "setValidationResult", "addError",
     "clearErrors", "setLoading", "setExporting", "updateChartConfig"}
StateUpdated == call \in UpdateCalls
StoredValid == sm.appState.validationResult.isValid
HoldsSong == "title" \in DOMAIN sm.appState.currentSong

(***************************************************************************)
(* C29: after every call of updateState, made directly or by setSong,      *)
(* setValidationResult or another setter, a stored validation result that  *)
(* is not valid goes with no current song; so canExport() is true only     *)
(* where the stored validation result is valid.                            *)
(***************************************************************************)
Thm_C29 ==
    StateUpdated =>
        /\ ~StoredValid => ~HoldsSong
        /\ StateManager_canExport(sm) => StoredValid

\* updateState was given a song together with a result that is not valid, and
\* the song is not stored
Wit_C29 ==
    /\ call = "updateState"
    /\ "currentSong" \in DOMAIN args.update
    /\ "validationResult" \in DOMAIN args.update
    /\ ~args.update.validationResult.isValid
    /\ sm.appState.validationResult = args.update.validationResult
    /\ ~HoldsSong

(***************************************************************************)
(* Vocabulary of the application.                                          *)
(***************************************************************************)
\* the last event processed the text
Processed == call \in {"processInput", "setText"}
\* the validation result RealTimeApp handled last is not valid
Blocked == app.currentValidation # null /\ ~app.currentValidation.isValid
\* the last event handled a validation result that is not valid
InvalidHandled == Processed /\ Blocked
\* the last event handled a text that is blank
BlankHandled == call \in {"handleInput", "setText"} /\ Len(trim(args.text)) = 0
\* RealTimeApp.getCurrentSong() and PreviewController.getCurrentSong()
AppSong == app.currentSong
PreviewSong == app.previewSong

(***************************************************************************)
(* C24: once RealTimeApp has handled a validation result that is not       *)
(* valid, or a text that is blank, the song parsed before is discarded:    *)
(* RealTimeApp.getCurrentSong() and PreviewController.getCurrentSong()     *)
(* both return null.  (The catch clause of processInput, the third case,   *)
(* is not entered by the application.)                                     *)
(***************************************************************************)
Orig_C24 ==
    (InvalidHandled \/ BlankHandled) =>
        /\ AppSong = null
        /\ PreviewSong = null

\* the export operations fail with the error of RealTimeApp
ExportRefused == exportGuard(World) = [thrown |-> "No chart available to export"]

(***************************************************************************)
(* C25: while the validation result RealTimeApp handled last is not valid  *)
(* (no later input has validated and been rendered), canExport() is false  *)
(* and exportChart, getExportDataURL and exportAsBlob fail with 'No chart  *)
(* available to export', whatever resize and chart configuration events    *)
(* happened in between.                                                    *)
(***************************************************************************)
Orig_C25 ==
    Blocked =>
        /\ ~canExport(World)
        /\ ExportRefused

\* the last event processed the text parsed, which is not blank and validates
ValidProcessed(parsed) ==
    /\ Processed
    /\ parsed.text = app.currentText
    /\ Len(trim(parsed.text)) > 0
    /\ parsed.validationResult.isValid
\* StateManager.getState().validationResult
StoredResult == sm.appState.validationResult

(***************************************************************************)
(* C30: after the text input has processed a text that validates (the      *)
(* validation result is reported first, the parsed song second), the       *)
(* validation result StateManager holds is the one validateInput returned  *)
(* for that text, warnings included.                                       *)
(***************************************************************************)
Orig_C30 ==
    \A parsed \in ParsedTexts :
        ValidProcessed(parsed) => StoredResult = parsed.validationResult

\* parseSong returned a Song
SongReturned == Parsed /\ result.ok

(***************************************************************************)
(* C26: every Song returned by parseSong has at least one line of notes:   *)
(* lines is not empty and noteCount is at least 1.  A title followed only  *)
(* by blank or separator-only lines is rejected.                           *)
(***************************************************************************)
Orig_C26 ==
    SongReturned =>
        /\ Len(result.song.lines) >= 1
        /\ result.song.metadata.noteCount >= 1

\* the notes of the Song returned, line after line
SongNotes == Flat(result.song.lines)
\* the chart PreviewController.updatePreview has the renderer draw for the Song
\* returned, under the default configuration
PreviewOf(song) == renderChart(song, patternsOf(song), DEFAULT_CHART_CONFIG, 1)
PatternsDrawn(song) ==
    Len(SelectSeq(PreviewOf(song).ctx.marks, LAMBDA m : m.kind = "pattern"))

(***************************************************************************)
(* C27: for every Song parseSong returns, getPattern finds a pattern for   *)
(* every note of Song.lines, so the pattern map updatePreview builds has   *)
(* an entry for every note and renderChart draws exactly noteCount         *)
(* patterns: no note of a validated Song is skipped.                       *)
(***************************************************************************)
Thm_C27 ==
    SongReturned =>
        /\ \A k \in 1..Len(SongNotes) : getPattern(SongNotes[k]).found
        /\ DOMAIN patternsOf(result.song) = {SongNotes[k] : k \in 1..Len(SongNotes)}
        /\ PatternsDrawn(result.song) = result.song.metadata.noteCount

\* a Song of two notes or more, one of them Bb, from an input that spells no
\* note with a capital B
Wit_C27 ==
    /\ SongReturned
    /\ Len(SongNotes) >= 2
    /\ \E k \in 1..Len(SongNotes) : SongNotes[k] = <<"B", "b">>
    /\ \A i \in 1..Len(input) : input[i] # "B"
    /\ PatternsDrawn(result.song) = Len(SongNotes)

\* what ChartRenderer.renderChart leaves, given the song and the patterns of
\* the call that ends the step, on the renderer as it was before the step
BaseRendered == renderChart(args'.song, args'.fingeringPatterns, chartConfig, dpr)

(***************************************************************************)
(* C28: PerformanceOptimizedRenderer.renderChart leaves the surface that   *)
(* ChartRenderer.renderChart would leave: once it returns, the canvas and  *)
(* the context show the chart of the given song under the current          *)
(* configuration, also where the call is answered from the render cache.   *)
(***************************************************************************)
Orig_C28 ==
    [][call' = "renderChart" =>
          /\ canvas' = BaseRendered.canvas
          /\ ctx' = BaseRendered.ctx]_vars

====
